---- MODULE Spec2Model ----
(***************************************************************************)
(* Model of package jsonutils: the type sniffer TypeOf and the variant     *)
(* container Payload (configuration, UnmarshalJSON, accessors, Clear and   *)
(* Reset).                                                                 *)
(*                                                                         *)
(* A byte slice is a sequence of one-character strings.  The standard      *)
(* library calls the package makes (json.Decoder.Token, json.Unmarshal,    *)
(* strconv.ParseInt/ParseUint/ParseFloat/Unquote) are modelled by what     *)
(* they do on such a sequence.  64-bit integers are kept as sign and       *)
(* decimal magnitude (a digit sequence without leading zeros), so that the *)
(* 64-bit limits are compared exactly.                                     *)
(***************************************************************************)
EXTENDS Integers, Sequences, FiniteSets, TLC

(***************************************************************************)
(* Errors.  The package's own errors carry their message; the errors of    *)
(* the standard library are named by their type.                           *)
(***************************************************************************)
nil == "nil"

ErrEmpty == "empty input"

ErrUnknownType == "unknown type"

ErrUnexpectedType == "unexpected JSON type"

ErrUnexpectedMapping == "unexpected mapping"

JSONSyntaxError == "json.SyntaxError"

JSONUnmarshalTypeError == "json.UnmarshalTypeError"

JSONInvalidUnmarshalError == "json.InvalidUnmarshalError"

IOEOF == "io.EOF"

IOErrUnexpectedEOF == "io.ErrUnexpectedEOF"

StrconvErrSyntax == "strconv.ErrSyntax"

StrconvErrRange == "strconv.ErrRange"

NilFuncPanic == "nil func call"

(***************************************************************************)
(* JSONType and GoMapping, with their iota values.                         *)
(***************************************************************************)
InvalidJSON == 0

Object == 1

Array == 2

Null == 3

String == 4

Number == 5

Boolean == 6

maxJSONType == 7

GoInvalidMapping == 0

GoOther == 1

GoNil == 2

GoString == 3

GoInt == 4

GoFloat == 5

GoUint == 6

GoBool == 7

JSONTypes == {Object, Array, Null, String, Number, Boolean}

GoMappings == GoInvalidMapping..GoBool

bNull == <<"n", "u", "l", "l">>

bTrue == <<"t", "r", "u", "e">>

bFalse == <<"f", "a", "l", "s", "e">>

(***************************************************************************)
(* Lexical helpers.                                                        *)
(***************************************************************************)
DigitChars == <<"0", "1", "2", "3", "4", "5", "6", "7", "8", "9">>

IsDigit(c) == \E k \in 1..10 : DigitChars[k] = c

DigitVal(c) == (CHOOSE k \in 1..10 : DigitChars[k] = c) - 1

IsHex(c) == IsDigit(c) \/ c \in {"a", "b", "c", "d", "e", "f", "A", "B", "C", "D", "E", "F"}

\* encoding/json isSpace
isSpace(c) == c \in {" ", "\t", "\r", "\n"}

\* bytes below 0x20 that the model's alphabet can contain
IsControl(c) == c \in {"\t", "\r", "\n"}

RECURSIVE SkipSpace(_, _)
SkipSpace(b, i) ==
    IF i <= Len(b) /\ isSpace(b[i]) THEN SkipSpace(b, i + 1) ELSE i

(***************************************************************************)
(* encoding/json scanner.  Each Scan operator is given the index of the    *)
(* first byte of a value and returns the index after its last byte, or     *)
(* ScanSyntax when the scanner reports an invalid character, or ScanEOF    *)
(* when the input ends inside the value.                                   *)
(***************************************************************************)
ScanSyntax == 0

ScanEOF == -1

RECURSIVE ScanLiteral(_, _, _, _)
ScanLiteral(b, i, lit, k) ==
    IF k > Len(lit) THEN i
    ELSE IF i > Len(b) THEN ScanEOF
    ELSE IF b[i] # lit[k] THEN ScanSyntax
    ELSE ScanLiteral(b, i + 1, lit, k + 1)

\* the number states of the scanner: neg, 0, 1, dot, dot0, e, esign, e0
RECURSIVE ScanNumber(_, _, _)
ScanNumber(b, i, st) ==
    LET atEnd == i > Len(b)
        c == b[i]
    IN  CASE st = "neg" ->
               IF atEnd THEN ScanEOF
               ELSE IF c = "0" THEN ScanNumber(b, i + 1, "0")
               ELSE IF IsDigit(c) THEN ScanNumber(b, i + 1, "1")
               ELSE ScanSyntax
          [] st = "1" ->
               IF ~atEnd /\ IsDigit(c) THEN ScanNumber(b, i + 1, "1")
               ELSE ScanNumber(b, i, "0")
          [] st = "0" ->
               IF atEnd THEN i
               ELSE IF c = "." THEN ScanNumber(b, i + 1, "dot")
               ELSE IF c \in {"e", "E"} THEN ScanNumber(b, i + 1, "e")
               ELSE i
          [] st = "dot" ->
               IF atEnd THEN ScanEOF
               ELSE IF IsDigit(c) THEN ScanNumber(b, i + 1, "dot0")
               ELSE ScanSyntax
          [] st = "dot0" ->
               IF atEnd THEN i
               ELSE IF IsDigit(c) THEN ScanNumber(b, i + 1, "dot0")
               ELSE IF c \in {"e", "E"} THEN ScanNumber(b, i + 1, "e")
               ELSE i
          [] st = "e" ->
               IF atEnd THEN ScanEOF
               ELSE IF c \in {"+", "-"} THEN ScanNumber(b, i + 1, "esign")
               ELSE ScanNumber(b, i, "esign")
          [] st = "esign" ->
               IF atEnd THEN ScanEOF
               ELSE IF IsDigit(c) THEN ScanNumber(b, i + 1, "e0")
               ELSE ScanSyntax
          [] st = "e0" ->
               IF ~atEnd /\ IsDigit(c) THEN ScanNumber(b, i + 1, "e0")
               ELSE i

\* i is the index after the opening quote
RECURSIVE ScanInString(_, _)
ScanInString(b, i) ==
    IF i > Len(b) THEN ScanEOF
    ELSE IF b[i] = "\"" THEN i + 1
    ELSE IF b[i] = "\\" THEN
        IF i + 1 > Len(b) THEN ScanEOF
        ELSE IF b[i + 1] \in {"b", "f", "n", "r", "t", "\\", "/", "\""}
             THEN ScanInString(b, i + 2)
        ELSE IF b[i + 1] = "u" THEN
             IF \E k \in 2..5 : i + k <= Len(b) /\ ~IsHex(b[i + k])
                  /\ \A j \in 2..(k - 1) : IsHex(b[i + j])
             THEN ScanSyntax
             ELSE IF i + 5 > Len(b) THEN ScanEOF
             ELSE ScanInString(b, i + 6)
        ELSE ScanSyntax
    ELSE IF IsControl(b[i]) THEN ScanSyntax
    ELSE ScanInString(b, i + 1)

RECURSIVE ScanValue(_, _)
RECURSIVE ScanArrayElems(_, _)
RECURSIVE ScanObjectMembers(_, _)

\* i is the index of the first byte of an element (white space skipped)
ScanArrayElems(b, i) ==
    LET e == ScanValue(b, i)
        j == SkipSpace(b, e)
    IN  IF e <= 0 THEN e
        ELSE IF j > Len(b) THEN ScanEOF
        ELSE IF b[j] = "]" THEN j + 1
        ELSE IF b[j] = "," THEN ScanArrayElems(b, SkipSpace(b, j + 1))
        ELSE ScanSyntax

\* i is the index of the first byte of a key (white space skipped)
ScanObjectMembers(b, i) ==
    IF i > Len(b) THEN ScanEOF
    ELSE IF b[i] # "\"" THEN ScanSyntax
    ELSE LET k == ScanInString(b, i + 1)
             c == SkipSpace(b, k)
         IN  IF k <= 0 THEN k
             ELSE IF c > Len(b) THEN ScanEOF
             ELSE IF b[c] # ":" THEN ScanSyntax
             ELSE LET e == ScanValue(b, SkipSpace(b, c + 1))
                      j == SkipSpace(b, e)
                  IN  IF e <= 0 THEN e
                      ELSE IF j > Len(b) THEN ScanEOF
                      ELSE IF b[j] = "}" THEN j + 1
                      ELSE IF b[j] = ","
                           THEN ScanObjectMembers(b, SkipSpace(b, j + 1))
                      ELSE ScanSyntax

ScanValue(b, i) ==
    IF i > Len(b) THEN ScanEOF
    ELSE LET c == b[i]
         IN  CASE c = "{" ->
                    LET j == SkipSpace(b, i + 1)
                    IN  IF j > Len(b) THEN ScanEOF
                        ELSE IF b[j] = "}" THEN j + 1
                        ELSE ScanObjectMembers(b, j)
               [] c = "[" ->
                    LET j == SkipSpace(b, i + 1)
                    IN  IF j > Len(b) THEN ScanEOF
                        ELSE IF b[j] = "]" THEN j + 1
                        ELSE ScanArrayElems(b, j)
               [] c = "\"" -> ScanInString(b, i + 1)
               [] c = "-" -> ScanNumber(b, i + 1, "neg")
               [] c = "0" -> ScanNumber(b, i + 1, "0")
               [] c # "0" /\ IsDigit(c) -> ScanNumber(b, i + 1, "1")
               [] c = "t" -> ScanLiteral(b, i, bTrue, 1)
               [] c = "f" -> ScanLiteral(b, i, bFalse, 1)
               [] c = "n" -> ScanLiteral(b, i, bNull, 1)
               [] OTHER -> ScanSyntax

(***************************************************************************)
(* Decimal magnitudes: digit sequences compared as the numbers they write. *)
(***************************************************************************)
RECURSIVE StripZeros(_)
StripZeros(ds) ==
    IF ds # <<>> /\ Head(ds) = "0" THEN StripZeros(Tail(ds)) ELSE ds

RECURSIVE StripTrailingZeros(_)
StripTrailingZeros(ds) ==
    IF ds # <<>> /\ ds[Len(ds)] = "0"
    THEN StripTrailingZeros(SubSeq(ds, 1, Len(ds) - 1))
    ELSE ds

\* -1, 0 or 1: compares digit by digit from the left, a missing digit
\* counting as 0 (the digits of two fractions 0.d1d2...)
CmpFrac(x, y) ==
    LET n == IF Len(x) > Len(y) THEN Len(x) ELSE Len(y)
        dx(k) == IF k <= Len(x) THEN DigitVal(x[k]) ELSE 0
        dy(k) == IF k <= Len(y) THEN DigitVal(y[k]) ELSE 0
        diff == {k \in 1..n : dx(k) # dy(k)}
    IN  IF diff = {} THEN 0
        ELSE LET k == CHOOSE m \in diff : \A o \in diff : m <= o
             IN  IF dx(k) < dy(k) THEN -1 ELSE 1

\* -1, 0 or 1 for two magnitudes without leading zeros
CmpMag(x, y) ==
    IF Len(x) < Len(y) THEN -1
    ELSE IF Len(x) > Len(y) THEN 1
    ELSE CmpFrac(x, y)

MaxInt64Mag == <<"9", "2", "2", "3", "3", "7", "2", "0", "3", "6", "8", "5", "4", "7", "7", "5", "8", "0", "7">>

\* 1 << 63, the cutoff of ParseInt
Int64Cutoff == <<"9", "2", "2", "3", "3", "7", "2", "0", "3", "6", "8", "5", "4", "7", "7", "5", "8", "0", "8">>

MaxUint64Mag == <<"1", "8", "4", "4", "6", "7", "4", "4", "0", "7", "3", "7", "0", "9", "5", "5", "1", "6", "1", "5">>

\* an int64 or uint64: sign and magnitude, zero being the empty magnitude
IntVal(neg, mag) == [neg |-> neg /\ mag # <<>>, mag |-> mag]

IntZero == IntVal(FALSE, <<>>)

(***************************************************************************)
(* strconv.ParseUint(s, 10, 64) and strconv.ParseInt(s, 10, 64).           *)
(***************************************************************************)
RECURSIVE ParseUintLoop(_, _, _)
ParseUintLoop(s, i, n) ==
    IF i > Len(s) THEN [val |-> IntVal(FALSE, n), err |-> nil]
    ELSE IF ~IsDigit(s[i]) THEN [val |-> IntZero, err |-> StrconvErrSyntax]
    ELSE LET n1 == StripZeros(Append(n, s[i]))
         IN  IF CmpMag(n1, MaxUint64Mag) > 0
             THEN [val |-> IntVal(FALSE, MaxUint64Mag), err |-> StrconvErrRange]
             ELSE ParseUintLoop(s, i + 1, n1)

\* ParseUint dropping a fractional part instead of rejecting it
ParseUint_DropsFraction(s) ==
    LET dots == {k \in 1..Len(s) : s[k] = "."}
        cut == IF dots = {} THEN s
               ELSE SubSeq(s, 1, (CHOOSE k \in dots : \A o \in dots : k <= o) - 1)
    IN  IF cut = <<>> THEN [val |-> IntZero, err |-> StrconvErrSyntax]
        ELSE ParseUintLoop(cut, 1, <<>>)

ParseUint(s) ==
    IF s = <<>> THEN [val |-> IntZero, err |-> StrconvErrSyntax]
    ELSE ParseUintLoop(s, 1, <<>>)

ParseInt(s) ==
    IF s = <<>> THEN [val |-> IntZero, err |-> StrconvErrSyntax]
    ELSE LET neg == s[1] = "-"
             rest == IF s[1] \in {"+", "-"} THEN Tail(s) ELSE s
             u == ParseUint(rest)
             un == u.val.mag
         IN  IF u.err = StrconvErrSyntax
             THEN [val |-> IntZero, err |-> StrconvErrSyntax]
             ELSE IF ~neg /\ CmpMag(un, Int64Cutoff) >= 0
             THEN [val |-> IntVal(FALSE, MaxInt64Mag), err |-> StrconvErrRange]
             ELSE IF neg /\ CmpMag(un, Int64Cutoff) > 0
             THEN [val |-> IntVal(TRUE, Int64Cutoff), err |-> StrconvErrRange]
             ELSE [val |-> IntVal(neg, un), err |-> nil]

(***************************************************************************)
(* strconv.ParseFloat(s, 64) on the decimal grammar of readFloat.  A       *)
(* float64 is kept as the decimal it was read from: sign, significant      *)
(* digits mant and decimal point position dp (the value is                 *)
(* 0.mant * 10^dp), or an infinity.  The rounding of the decimal to 53     *)
(* bits is not represented.  The hexadecimal forms (0x...) and the words   *)
(* inf, infinity and nan are not part of the modelled alphabet.            *)
(***************************************************************************)
FloatVal(neg, mant, dp) ==
    [neg |-> neg, mant |-> mant, dp |-> IF mant = <<>> THEN 0 ELSE dp, inf |-> FALSE]

FloatInf(neg) == [neg |-> neg, mant |-> <<>>, dp |-> 0, inf |-> TRUE]

FloatZero == FloatVal(FALSE, <<>>, 0)

\* digits of (2^1024 - 2^970) / 10^309, the round-to-infinity limit,
\* and of 2^(-1075) * 10^323, the round-to-zero limit, to 30 places
FloatOverflowFrac == <<"1", "7", "9", "7", "6", "9", "3", "1", "3", "4", "8", "6", "2", "3", "1", "5", "8", "0", "7", "9", "3", "7", "2", "8", "9", "7", "1", "4", "0", "5">>

FloatUnderflowFrac == <<"2", "4", "7", "0", "3", "2", "8", "2", "2", "9", "2", "0", "6", "2", "3", "2", "7", "2", "0", "8", "8", "2", "8", "4", "3", "9", "6", "4", "3", "4">>

FloatMaxDp == 309

FloatMinDp == -323

ExpCap == 10000

\* the mantissa loop of readFloat; st = [nd, dp, sawdot, sawdigits, mant]
RECURSIVE ReadFloatMant(_, _, _)
ReadFloatMant(s, i, st) ==
    IF i > Len(s) THEN [i |-> i, st |-> st]
    ELSE IF s[i] = "." THEN
        IF st.sawdot THEN [i |-> i, st |-> st]
        ELSE ReadFloatMant(s, i + 1, [st EXCEPT !.sawdot = TRUE, !.dp = st.nd])
    ELSE IF IsDigit(s[i]) THEN
        IF s[i] = "0" /\ st.nd = 0
        THEN ReadFloatMant(s, i + 1, [st EXCEPT !.sawdigits = TRUE, !.dp = st.dp - 1])
        ELSE ReadFloatMant(s, i + 1, [st EXCEPT !.sawdigits = TRUE, !.nd = st.nd + 1,
                                               !.mant = Append(st.mant, s[i])])
    ELSE [i |-> i, st |-> st]

\* the exponent digits of readFloat: e grows only while below ExpCap
RECURSIVE ReadFloatExp(_, _, _)
ReadFloatExp(s, i, e) ==
    IF i <= Len(s) /\ IsDigit(s[i])
    THEN ReadFloatExp(s, i + 1, IF e < ExpCap THEN e * 10 + DigitVal(s[i]) ELSE e)
    ELSE [i |-> i, e |-> e]

\* [ok, i, neg, mant, dp]: i is the index after the last byte consumed
readFloat(s) ==
    LET fail == [ok |-> FALSE, i |-> 1, neg |-> FALSE, mant |-> <<>>, dp |-> 0]
    IN  IF s = <<>> THEN fail
        ELSE
        LET neg == s[1] = "-"
            i0 == IF s[1] \in {"+", "-"} THEN 2 ELSE 1
            m == ReadFloatMant(s, i0, [nd |-> 0, dp |-> 0, sawdot |-> FALSE,
                                       sawdigits |-> FALSE, mant |-> <<>>])
            dp0 == IF m.st.sawdot THEN m.st.dp ELSE m.st.nd
            hasExp == m.i <= Len(s) /\ s[m.i] \in {"e", "E"}
            i1 == m.i + 1
            esign == IF i1 <= Len(s) /\ s[i1] = "-" THEN -1 ELSE 1
            i2 == IF i1 <= Len(s) /\ s[i1] \in {"+", "-"} THEN i1 + 1 ELSE i1
            x == ReadFloatExp(s, i2, 0)
        IN  IF ~m.st.sawdigits THEN fail
            ELSE IF ~hasExp
            THEN [ok |-> TRUE, i |-> m.i, neg |-> neg, mant |-> m.st.mant, dp |-> dp0]
            ELSE IF i2 > Len(s) \/ ~IsDigit(s[i2]) THEN fail
            ELSE [ok |-> TRUE, i |-> x.i, neg |-> neg, mant |-> m.st.mant,
                  dp |-> dp0 + x.e * esign]

ParseFloat(s) ==
    LET r == readFloat(s)
        mant == StripTrailingZeros(r.mant)
    IN  IF ~r.ok \/ r.i # Len(s) + 1
        THEN [val |-> FloatZero, err |-> StrconvErrSyntax]
        ELSE IF mant = <<>> THEN [val |-> FloatVal(r.neg, <<>>, 0), err |-> nil]
        ELSE IF r.dp > FloatMaxDp
                \/ (r.dp = FloatMaxDp /\ CmpFrac(mant, FloatOverflowFrac) > 0)
        THEN [val |-> FloatInf(r.neg), err |-> StrconvErrRange]
        ELSE IF r.dp < FloatMinDp
                \/ (r.dp = FloatMinDp /\ CmpFrac(mant, FloatUnderflowFrac) <= 0)
        THEN [val |-> FloatVal(r.neg, <<>>, 0), err |-> nil]
        ELSE [val |-> FloatVal(r.neg, mant, r.dp), err |-> nil]

(***************************************************************************)
(* strconv.Unquote on a double-quoted Go string literal (the only quote    *)
(* UnmarshalJSON can pass: the input starts with a double quote).  The     *)
(* result is the sequence of characters of the string.                     *)
(***************************************************************************)
HexVal(c) ==
    IF IsDigit(c) THEN DigitVal(c)
    ELSE CASE c \in {"a", "A"} -> 10 [] c \in {"b", "B"} -> 11
           [] c \in {"c", "C"} -> 12 [] c \in {"d", "D"} -> 13
           [] c \in {"e", "E"} -> 14 [] c \in {"f", "F"} -> 15

RECURSIVE HexNum(_, _, _)
HexNum(s, i, n) ==
    IF n = 0 THEN 0 ELSE HexNum(s, i, n - 1) * 16 + HexVal(s[i + n - 1])

\* the character of a code point, for the code points the inputs can name
RuneChar(v) ==
    CASE v = 34 -> "\"" [] v = 47 -> "/" [] v = 65 -> "A" [] v = 92 -> "\\"
      [] v = 97 -> "a" [] v = 10 -> "\n" [] v = 233 -> "e-acute"
      [] OTHER -> "U+other"

\* utf8.ValidRune
ValidRune(v) == (0 <= v /\ v < 55296) \/ (57343 < v /\ v <= 1114111)

RECURSIVE UnquoteChars(_, _, _)
UnquoteChars(s, i, out) ==
    LET bad == [val |-> <<>>, err |-> StrconvErrSyntax]
        hex(n) == IF i + 1 + n > Len(s) \/ \E k \in 2..(n + 1) : ~IsHex(s[i + k])
                  THEN bad
                  ELSE IF n > 2 /\ ~ValidRune(HexNum(s, i + 2, n)) THEN bad
                  ELSE UnquoteChars(s, i + 2 + n, Append(out, RuneChar(HexNum(s, i + 2, n))))
    IN  IF i > Len(s) THEN [val |-> out, err |-> nil]
        ELSE IF s[i] = "\"" THEN bad
        ELSE IF s[i] # "\\" THEN UnquoteChars(s, i + 1, Append(out, s[i]))
        ELSE IF i + 1 > Len(s) THEN bad
        ELSE LET c == s[i + 1]
             IN  CASE c = "n" -> UnquoteChars(s, i + 2, Append(out, "\n"))
                   [] c = "r" -> UnquoteChars(s, i + 2, Append(out, "\r"))
                   [] c = "t" -> UnquoteChars(s, i + 2, Append(out, "\t"))
                   [] c = "f" -> UnquoteChars(s, i + 2, Append(out, "\f"))
                   [] c = "a" -> UnquoteChars(s, i + 2, Append(out, "BEL"))
                   [] c = "b" -> UnquoteChars(s, i + 2, Append(out, "BS"))
                   [] c = "v" -> UnquoteChars(s, i + 2, Append(out, "VT"))
                   [] c = "\\" -> UnquoteChars(s, i + 2, Append(out, "\\"))
                   [] c = "\"" -> UnquoteChars(s, i + 2, Append(out, "\""))
                   [] c = "x" -> hex(2)
                   [] c = "u" -> hex(4)
                   [] c = "U" -> hex(8)
                   [] c \in {"0", "1", "2", "3", "4", "5", "6", "7"} ->
                        IF i + 3 > Len(s)
                           \/ \E k \in 2..3 : s[i + k] \notin {"0", "1", "2", "3", "4", "5", "6", "7"}
                        THEN bad
                        ELSE IF DigitVal(c) * 64 + DigitVal(s[i + 2]) * 8 + DigitVal(s[i + 3]) > 255
                        THEN bad
                        ELSE UnquoteChars(s, i + 4,
                                 Append(out, RuneChar(DigitVal(c) * 64 + DigitVal(s[i + 2]) * 8
                                                      + DigitVal(s[i + 3]))))
                   [] OTHER -> bad

Unquote(s) ==
    LET n == Len(s)
        bad == [val |-> <<>>, err |-> StrconvErrSyntax]
    IN  IF n < 2 THEN bad
        ELSE IF s[1] # s[n] THEN bad
        ELSE IF \E k \in 2..(n - 1) : s[k] = "\n" THEN bad
        ELSE UnquoteChars(SubSeq(s, 2, n - 1), 1, <<>>)

(***************************************************************************)
(* json.Decoder.Token on a fresh decoder over b: the Go type of the first  *)
(* token, or the error.                                                    *)
(***************************************************************************)
\* Token taking the literal false for a null
Token_FalseIsNil(b) ==
    LET i == SkipSpace(b, 1)
        e == ScanValue(b, i)
    IN  IF i > Len(b) THEN [tk |-> "none", err |-> IOEOF]
        ELSE IF b[i] \in {"[", "{"} THEN [tk |-> "json.Delim", err |-> nil]
        ELSE IF b[i] \in {"]", "}", ":", ","} THEN [tk |-> "none", err |-> JSONSyntaxError]
        ELSE IF e = ScanSyntax THEN [tk |-> "none", err |-> JSONSyntaxError]
        ELSE IF e = ScanEOF THEN [tk |-> "none", err |-> IOErrUnexpectedEOF]
        ELSE CASE b[i] = "\"" -> [tk |-> "string", err |-> nil]
               [] b[i] \in {"n", "f"} -> [tk |-> "nil", err |-> nil]
               [] b[i] = "t" -> [tk |-> "bool", err |-> nil]
               [] OTHER ->
                    IF ParseFloat(SubSeq(b, i, e - 1)).err # nil
                    THEN [tk |-> "none", err |-> JSONUnmarshalTypeError]
                    ELSE [tk |-> "float64", err |-> nil]

Token(b) ==
    LET i == SkipSpace(b, 1)
        e == ScanValue(b, i)
    IN  IF i > Len(b) THEN [tk |-> "none", err |-> IOEOF]
        ELSE IF b[i] \in {"[", "{"} THEN [tk |-> "json.Delim", err |-> nil]
        ELSE IF b[i] \in {"]", "}", ":", ","} THEN [tk |-> "none", err |-> JSONSyntaxError]
        ELSE IF e = ScanSyntax THEN [tk |-> "none", err |-> JSONSyntaxError]
        ELSE IF e = ScanEOF THEN [tk |-> "none", err |-> IOErrUnexpectedEOF]
        ELSE CASE b[i] = "\"" -> [tk |-> "string", err |-> nil]
               [] b[i] = "n" -> [tk |-> "nil", err |-> nil]
               [] b[i] \in {"t", "f"} -> [tk |-> "bool", err |-> nil]
               [] OTHER ->
                    \* convertNumber: the literal must fit a float64
                    IF ParseFloat(SubSeq(b, i, e - 1)).err # nil
                    THEN [tk |-> "none", err |-> JSONUnmarshalTypeError]
                    ELSE [tk |-> "float64", err |-> nil]

(***************************************************************************)
(* TypeOf (typeOfFromBytes).                                               *)
(***************************************************************************)
\* TypeOf validating a composite or a string before naming its type
TypeOf_ValidatesFirst(jsonBytes) ==
    IF Len(jsonBytes) = 0 THEN [t |-> InvalidJSON, err |-> ErrEmpty]
    ELSE IF jsonBytes[1] \in {"{", "[", "\""} /\ ScanValue(jsonBytes, 1) <= 0
    THEN [t |-> InvalidJSON, err |-> JSONSyntaxError]
    ELSE CASE jsonBytes[1] = "{" -> [t |-> Object, err |-> nil]
           [] jsonBytes[1] = "[" -> [t |-> Array, err |-> nil]
           [] jsonBytes[1] = "\"" -> [t |-> String, err |-> nil]
           [] OTHER ->
                LET r == Token(jsonBytes)
                IN  IF r.err # nil THEN [t |-> InvalidJSON, err |-> r.err]
                    ELSE CASE r.tk = "nil" -> [t |-> Null, err |-> nil]
                           [] r.tk = "bool" -> [t |-> Boolean, err |-> nil]
                           [] r.tk = "float64" -> [t |-> Number, err |-> nil]
                           [] OTHER -> [t |-> InvalidJSON, err |-> ErrUnknownType]

\* TypeOf taking an empty input for a JSON null
TypeOf_EmptyIsNull(jsonBytes) ==
    IF Len(jsonBytes) = 0 THEN [t |-> Null, err |-> nil]
    ELSE CASE jsonBytes[1] = "{" -> [t |-> Object, err |-> nil]
           [] jsonBytes[1] = "[" -> [t |-> Array, err |-> nil]
           [] jsonBytes[1] = "\"" -> [t |-> String, err |-> nil]
           [] OTHER ->
                LET r == Token(jsonBytes)
                IN  IF r.err # nil THEN [t |-> InvalidJSON, err |-> r.err]
                    ELSE CASE r.tk = "nil" -> [t |-> Null, err |-> nil]
                           [] r.tk = "bool" -> [t |-> Boolean, err |-> nil]
                           [] r.tk = "float64" -> [t |-> Number, err |-> nil]
                           [] OTHER -> [t |-> InvalidJSON, err |-> ErrUnknownType]

TypeOf(jsonBytes) ==
    IF Len(jsonBytes) = 0 THEN [t |-> InvalidJSON, err |-> ErrEmpty]
    ELSE CASE jsonBytes[1] = "{" -> [t |-> Object, err |-> nil]
           [] jsonBytes[1] = "[" -> [t |-> Array, err |-> nil]
           [] jsonBytes[1] = "\"" -> [t |-> String, err |-> nil]
           [] OTHER ->
                LET r == Token(jsonBytes)
                IN  IF r.err # nil THEN [t |-> InvalidJSON, err |-> r.err]
                    ELSE CASE r.tk = "nil" -> [t |-> Null, err |-> nil]
                           [] r.tk = "bool" -> [t |-> Boolean, err |-> nil]
                           [] r.tk = "float64" -> [t |-> Number, err |-> nil]
                           [] OTHER -> [t |-> InvalidJSON, err |-> ErrUnknownType]

(***************************************************************************)
(* json.Unmarshal(b, v) for the targets a factory can produce.  A target   *)
(* is "nil" or a record [factory, doc]: the pointer made by that factory   *)
(* and the document decoded into the value it points to (<<>> while the    *)
(* value is still empty).                                                  *)
(***************************************************************************)
\* checkValid: exactly one value, white space around it allowed
checkValid(b) ==
    LET e == ScanValue(b, SkipSpace(b, 1))
    IN  e > 0 /\ SkipSpace(b, e) > Len(b)

\* a nil interface{} (also a nil pointer handed to json.Unmarshal)
NilTarget == [factory |-> "nil", doc |-> <<>>]

\* PayloadFactory values: the nil func, the two default factories, and
\* two factories a caller can write: one returning a pointer to a new
\* struct and one returning nil
NilFactory == "nil"

WithDefaultArray == "WithDefaultArray"

WithDefaultObject == "WithDefaultObject"

CallerObjectFactory == "func() interface{} { return new(User) }"

CallerNilFactory == "func() interface{} { return nil }"

Factories == {WithDefaultArray, WithDefaultObject, CallerObjectFactory, CallerNilFactory}

\* the value a (non-nil) factory returns
CallFactory(f) ==
    IF f = CallerNilFactory THEN NilTarget ELSE [factory |-> f, doc |-> <<>>]

\* the Go kind of the value a target points to
TargetKind(v) ==
    CASE v.factory = WithDefaultObject -> "map"
      [] v.factory = CallerObjectFactory -> "struct"
      [] OTHER -> "slice"

Unmarshal(b, v) ==
    LET c == b[SkipSpace(b, 1)]
    IN  IF ~checkValid(b) THEN [val |-> v, err |-> JSONSyntaxError]
        ELSE IF v = NilTarget THEN [val |-> v, err |-> JSONInvalidUnmarshalError]
        ELSE IF c = "n" THEN [val |-> v, err |-> nil]
        ELSE IF (c = "{" /\ TargetKind(v) \in {"map", "struct"}) \/ (c = "[" /\ TargetKind(v) = "slice")
        THEN [val |-> [v EXCEPT !.doc = b], err |-> nil]
        ELSE [val |-> v, err |-> JSONUnmarshalTypeError]

(***************************************************************************)
(* Payload.  A Payload is a record of the struct's fields; a Go            *)
(* interface{} value is a record [type, val].                              *)
(***************************************************************************)
Iface(type, val) == [type |-> type, val |-> val]

NilIface == Iface("nil", NilTarget)

\* &Payload{}: the zero value of every field
NewPayload ==
    [with |-> [t \in 0..(maxJSONType - 1) |-> FALSE],
     jsonType |-> InvalidJSON,
     mapping |-> GoInvalidMapping,
     pBool |-> FALSE,
     numType |-> GoInvalidMapping,
     pInt |-> IntZero,
     pUint |-> IntZero,
     pFloat |-> FloatZero,
     pString |-> <<>>,
     otherFactory |-> NilFactory,
     pOther |-> NilTarget]

\* Clear dropping the composite factory as well
Clear_DropsFactory(q) ==
    [q EXCEPT !.jsonType = InvalidJSON,
              !.mapping = GoInvalidMapping,
              !.pBool = FALSE,
              !.pInt = IntZero,
              !.pUint = IntZero,
              !.pFloat = FloatZero,
              !.pString = <<>>,
              !.otherFactory = NilFactory,
              !.pOther = NilTarget]

\* Clear leaving the tag as it is
Clear_KeepsTag(q) ==
    [q EXCEPT !.jsonType = InvalidJSON,
              !.pBool = FALSE,
              !.pInt = IntZero,
              !.pUint = IntZero,
              !.pFloat = FloatZero,
              !.pString = <<>>,
              !.pOther = NilTarget]

Clear(q) ==
    [q EXCEPT !.jsonType = InvalidJSON,
              !.mapping = GoInvalidMapping,
              !.pBool = FALSE,
              !.pInt = IntZero,
              !.pUint = IntZero,
              !.pFloat = FloatZero,
              !.pString = <<>>,
              !.pOther = NilTarget]

\* Reset leaving the numeric mapping in place
Reset_KeepsNumType(q) ==
    [Clear(q) EXCEPT !.with = [t \in 0..(maxJSONType - 1) |-> FALSE],
                     !.otherFactory = NilFactory]

Reset(q) ==
    [Clear(q) EXCEPT !.with = [t \in 0..(maxJSONType - 1) |-> FALSE],
                     !.otherFactory = NilFactory,
                     !.numType = GoInvalidMapping]

\* a call of UnmarshalJSON that stored the result r of a parser in a slot
Filled(q, slot, r) ==
    [p |-> [q EXCEPT ![slot] = r.val], err |-> r.err, panic |-> nil]

\* a call of UnmarshalJSON that had nothing to parse
Unfilled(q) == [p |-> q, err |-> nil, panic |-> nil]

\* DecodeNumber choosing the slot by the shape of the literal: a literal
\* with a fraction goes to the float slot whatever the configuration says
DecodeNumber_ByShape(q, b) ==
    IF \E k \in 1..Len(b) : b[k] = "."
    THEN Filled([q EXCEPT !.mapping = GoFloat], "pFloat", ParseFloat(b))
    ELSE CASE q.mapping = GoInt -> Filled(q, "pInt", ParseInt(b))
           [] q.mapping = GoFloat -> Filled(q, "pFloat", ParseFloat(b))
           [] q.mapping = GoUint -> Filled(q, "pUint", ParseUint(b))
           [] OTHER -> Unfilled(q)

\* the Number case of UnmarshalJSON: q.mapping is already q.numType
DecodeNumber(q, b) ==
    CASE q.mapping = GoInt -> Filled(q, "pInt", ParseInt(b))
      [] q.mapping = GoFloat -> Filled(q, "pFloat", ParseFloat(b))
      [] q.mapping = GoUint -> Filled(q, "pUint", ParseUint(b))
      [] OTHER -> Unfilled(q)

\* the Object and Array case of UnmarshalJSON: q.mapping is already
\* GoOther; calling a nil otherFactory panics
DecodeOther(q, b) ==
    IF q.otherFactory = NilFactory
    THEN [p |-> q, err |-> nil, panic |-> NilFuncPanic]
    ELSE Filled(q, "pOther", Unmarshal(b, CallFactory(q.otherFactory)))

\* the switch of UnmarshalJSON; the result has panic # nil when the call
\* panics instead of returning
DecodeSwitch(q, b) ==
    CASE q.jsonType \in {Object, Array} -> DecodeOther([q EXCEPT !.mapping = GoOther], b)
      [] q.jsonType = Null -> Unfilled([q EXCEPT !.mapping = GoNil])
      [] q.jsonType = String ->
           Filled([q EXCEPT !.mapping = GoString], "pString", Unquote(b))
      [] q.jsonType = Number -> DecodeNumber([q EXCEPT !.mapping = q.numType], b)
      [] q.jsonType = Boolean ->
           Unfilled([q EXCEPT !.mapping = GoBool, !.pBool = (b = bTrue)])

\* DecodeReturn without the final `if err != nil { p.mapping = ... }`
DecodeReturn_KeepsTag(d) == d

\* DecodeReturn forgetting the sniffed type as well when the slot could not
\* be filled
DecodeReturn_ErrorClearsType(d) ==
    IF d.panic = nil /\ d.err # nil
    THEN [d EXCEPT !.p.mapping = GoInvalidMapping, !.p.jsonType = InvalidJSON]
    ELSE d

\* the end of UnmarshalJSON: an error while filling the slot puts the
\* mapping back to GoInvalidMapping
DecodeReturn(d) ==
    IF d.panic = nil /\ d.err # nil
    THEN [d EXCEPT !.p.mapping = GoInvalidMapping]
    ELSE d

\* DecodeSniffed forgetting the sniffed type when it rejects it
DecodeSniffed_RejectClearsType(c, t, b) ==
    IF t.err # nil
    THEN [p |-> [c EXCEPT !.jsonType = t.t], err |-> t.err, panic |-> nil]
    ELSE IF t.t = InvalidJSON \/ ~c.with[t.t]
    THEN [p |-> c, err |-> ErrUnexpectedType, panic |-> nil]
    ELSE DecodeReturn(DecodeSwitch([c EXCEPT !.jsonType = t.t], b))

\* DecodeSniffed taking a JSON null whether or not Null is accepted
DecodeSniffed_NullAlwaysAccepted(c, t, b) ==
    IF t.err # nil
    THEN [p |-> [c EXCEPT !.jsonType = t.t], err |-> t.err, panic |-> nil]
    ELSE IF t.t = InvalidJSON \/ (t.t # Null /\ ~c.with[t.t])
    THEN [p |-> [c EXCEPT !.jsonType = t.t], err |-> ErrUnexpectedType, panic |-> nil]
    ELSE DecodeReturn(DecodeSwitch([c EXCEPT !.jsonType = t.t], b))

\* DecodeSniffed testing the acceptance of the type before the sniffer's
\* error
DecodeSniffed_AcceptanceFirst(c, t, b) ==
    IF t.t = InvalidJSON \/ ~c.with[t.t]
    THEN [p |-> [c EXCEPT !.jsonType = t.t], err |-> ErrUnexpectedType, panic |-> nil]
    ELSE IF t.err # nil
    THEN [p |-> [c EXCEPT !.jsonType = t.t], err |-> t.err, panic |-> nil]
    ELSE DecodeReturn(DecodeSwitch([c EXCEPT !.jsonType = t.t], b))

\* UnmarshalJSON after p.Clear(), c being the cleared Payload and t what
\* TypeOf(b) returned: p.jsonType is assigned, then the sniffer's error or
\* a type that is not accepted ends the call
DecodeSniffed(c, t, b) ==
    IF t.err # nil
    THEN [p |-> [c EXCEPT !.jsonType = t.t], err |-> t.err, panic |-> nil]
    ELSE IF t.t = InvalidJSON \/ ~c.with[t.t]
    THEN [p |-> [c EXCEPT !.jsonType = t.t], err |-> ErrUnexpectedType, panic |-> nil]
    ELSE DecodeReturn(DecodeSwitch([c EXCEPT !.jsonType = t.t], b))

\* UnmarshalJSON without the Clear it starts with
UnmarshalJSON_SkipsClear(q, b) == DecodeSniffed(q, TypeOf(b), b)

\* Payload.UnmarshalJSON: the Payload afterwards, the error returned and
\* the panic value (nil when the call returns)
UnmarshalJSON(q, b) == DecodeSniffed(Clear(q), TypeOf(b), b)

\* Get without the GoUint case
Get_MissingUint(q) ==
    [ret |-> CASE q.mapping = GoOther ->
                    IF q.pOther = NilTarget THEN NilIface ELSE Iface("pointer", q.pOther)
               [] q.mapping = GoString -> Iface("string", q.pString)
               [] q.mapping = GoFloat -> Iface("float64", q.pFloat)
               [] q.mapping = GoInt -> Iface("int64", q.pInt)
               [] q.mapping = GoBool -> Iface("bool", q.pBool)
               [] OTHER -> NilIface,
     mapping |-> q.mapping]

\* Payload.Get
Get(q) ==
    [ret |-> CASE q.mapping = GoOther ->
                    IF q.pOther = NilTarget THEN NilIface ELSE Iface("pointer", q.pOther)
               [] q.mapping = GoString -> Iface("string", q.pString)
               [] q.mapping = GoFloat -> Iface("float64", q.pFloat)
               [] q.mapping = GoInt -> Iface("int64", q.pInt)
               [] q.mapping = GoUint -> Iface("uint64", q.pUint)
               [] q.mapping = GoBool -> Iface("bool", q.pBool)
               [] OTHER -> NilIface,
     mapping |-> q.mapping]

\* panicIfNot letting an unset mapping through
panicIfNot_AllowsInvalid(m, m2) ==
    IF m # m2 /\ m # GoInvalidMapping THEN ErrUnexpectedMapping ELSE nil

\* GoMapping.panicIfNot: the panic value, nil when it returns
panicIfNot(m, m2) == IF m # m2 THEN ErrUnexpectedMapping ELSE nil

\* the typed accessors: the mapping each one requires and the slot it reads
AccessorMapping ==
    [GetObject |-> GoOther, GetArray |-> GoOther, GetOther |-> GoOther,
     GetString |-> GoString, GetBool |-> GoBool, GetInt |-> GoInt,
     GetUint |-> GoUint, GetFloat |-> GoFloat]

Accessors == DOMAIN AccessorMapping

AccessorSlot(q, a) ==
    CASE a \in {"GetObject", "GetArray", "GetOther"} ->
           IF q.pOther = NilTarget THEN NilIface ELSE Iface("pointer", q.pOther)
      [] a = "GetString" -> Iface("string", q.pString)
      [] a = "GetBool" -> Iface("bool", q.pBool)
      [] a = "GetInt" -> Iface("int64", q.pInt)
      [] a = "GetUint" -> Iface("uint64", q.pUint)
      [] a = "GetFloat" -> Iface("float64", q.pFloat)

\* a typed accessor: [ret, panic]
Accessor(q, a) ==
    IF panicIfNot(q.mapping, AccessorMapping[a]) # nil
    THEN [ret |-> NilIface, panic |-> ErrUnexpectedMapping]
    ELSE [ret |-> AccessorSlot(q, a), panic |-> nil]

\* IsNil taking an unset tag for a null as well
IsNil_UnsetIsNil(q) == q.mapping \in {GoNil, GoInvalidMapping}

IsNil(q) == q.mapping = GoNil

GetMapping(q) == q.mapping

GetJSONType(q) == q.jsonType

(***************************************************************************)
(* Configuration.  A variadic argument is the sequence of the values       *)
(* passed.                                                                 *)
(***************************************************************************)
Enabled(enable) == Len(enable) = 0 \/ enable[1]

\* WithFlag unable to turn a type back off
WithFlag_OnlyEnables(q, t, enable) ==
    [q EXCEPT !.with[t] = q.with[t] \/ Enabled(enable)]

\* WithFlag clearing the decoded value, as a decode does before it starts
WithFlag_ClearsValue(q, t, enable) == [Clear(q) EXCEPT !.with[t] = Enabled(enable)]

WithFlag(q, t, enable) == [q EXCEPT !.with[t] = Enabled(enable)]

\* withNum turning Number off whichever mapping is active
withNum_DisablesAny(q, m, enable) ==
    IF Enabled(enable)
    THEN [q EXCEPT !.with[Number] = TRUE, !.numType = m]
    ELSE [q EXCEPT !.with[Number] = FALSE]

\* withNum keeping a numeric mapping that is already set
withNum_KeepsFirst(q, m, enable) ==
    IF Enabled(enable)
    THEN [q EXCEPT !.with[Number] = TRUE,
                   !.numType = IF q.numType = GoInvalidMapping THEN m ELSE q.numType]
    ELSE IF q.numType = m /\ q.with[Number]
    THEN [q EXCEPT !.with[Number] = FALSE]
    ELSE q

withNum(q, m, enable) ==
    IF Enabled(enable)
    THEN [q EXCEPT !.with[Number] = TRUE, !.numType = m]
    ELSE IF q.numType = m /\ q.with[Number]
    THEN [q EXCEPT !.with[Number] = FALSE]
    ELSE q

\* WithNumber setting the flag without going on to WithInt
WithNumber_OnlyFlag(q, enable) == [q EXCEPT !.with[Number] = Enabled(enable)]

WithNumber(q, enable) ==
    LET q1 == [q EXCEPT !.with[Number] = Enabled(enable)]
    IN  IF q1.with[Number] THEN withNum(q1, GoInt, <<>>) ELSE q1

\* withOther enabling the type whatever factory it is given
withOther_AlwaysEnables(q, t, f) ==
    [q EXCEPT !.with[t] = TRUE, !.otherFactory = f[1]]

\* withOther turning both composite types off when it is given nil
withOther_NilDisablesBoth(q, t, f) ==
    IF f[1] = NilFactory
    THEN [q EXCEPT !.with[Object] = FALSE, !.with[Array] = FALSE, !.otherFactory = f[1]]
    ELSE [q EXCEPT !.with[t] = TRUE, !.otherFactory = f[1]]

withOther(q, t, f) ==
    [q EXCEPT !.with[t] = (f[1] # NilFactory), !.otherFactory = f[1]]

WithArray(q, f) == withOther(q, Array, Append(f, WithDefaultArray))

WithObject(q, f) == withOther(q, Object, Append(f, WithDefaultObject))

(***************************************************************************)
(* The inputs handed to UnmarshalJSON: the payloads of the package's       *)
(* tests and examples, and inputs at the edges of the sniffer and of the   *)
(* parsers.                                                                *)
(***************************************************************************)
InEmpty == <<>>

InNull == <<"n", "u", "l", "l">>

InTrue == <<"t", "r", "u", "e">>

InTrueSpace == <<"t", "r", "u", "e", " ">>

InNeg == <<"-", "2", "0">>

InFrac == <<"3", "4", ".", "1">>

InBigInt == <<"9", "2", "2", "3", "3", "7", "2", "0", "3", "6", "8", "5", "4", "7", "7", "5", "8", "0", "8">>

InString == <<"\"", "h", "e", "l", "l", "o", "\"">>

InStringSlash == <<"\"", "a", "\\", "/", "b", "\"">>

InObject == <<"{", "\"", "s", "o", "m", "e", "\"", ":", "\"", "d", "a", "t", "a", "\"", "}">>

InArray == <<"[", "1", ",", "2", ",", "\"", "x", "\"", "]">>

InBadObject == <<"{">>

InWhatever == <<"w", "h", "a", "t", "e", "v", "e", "r">>

Inputs ==
    {InEmpty,
     InNull,
     InTrue,
     InTrueSpace,
     InNeg,
     InFrac,
     InBigInt,
     InString,
     InStringSlash,
     InObject,
     InArray,
     InBadObject,
     InWhatever}

\* the values of a variadic `enable ...bool`
EnableArgs == {<<>>, <<TRUE>>, <<FALSE>>}

\* the values of a variadic `f ...PayloadFactory`
FactoryArgs == {<<>>} \cup {<<f>> : f \in Factories \cup {NilFactory}}

(***************************************************************************)
(* State: the Payload p the caller holds, whether that instance currently  *)
(* sits in payloadPool, the last call made with its outcome, and the       *)
(* number of calls made so far.  Two history variables record what the     *)
(* caller did: decoded is how the most recent UnmarshalJSON call on the    *)
(* instance ended ("never" when there was none, else "ok", "failed" or     *)
(* "panicked"), and passed[t] is the factory the caller most recently gave *)
(* for the composite type t (NilFactory when none, or after a Reset).      *)
(*                                                                         *)
(* Three more variables describe several goroutines sharing payloadPool:   *)
(* heap maps the address of every Payload allocated so far to its fields,  *)
(* payloadPool is the set of addresses the pool holds, and holds[g] is the *)
(* address goroutine g got from AcquirePayload and has not released yet    *)
(* (NilAddr when it holds none).  They change only in the specification of *)
(* the pool below.                                                         *)
(***************************************************************************)
VARIABLES p, pooled, last, calls, decoded, passed, heap, payloadPool, holds

poolVars == <<heap, payloadPool, holds>>

vars == <<p, pooled, last, calls, decoded, passed, heap, payloadPool, holds>>

\* the number of goroutines that use the pool
MaxGoroutines == 3

Goroutines == 1..MaxGoroutines

\* the nil *Payload
NilAddr == 0

\* no Payload allocated, the pool empty, no goroutine holding an instance
PoolIdle ==
    /\ heap = <<>>
    /\ payloadPool = {}
    /\ holds = [g \in Goroutines |-> NilAddr]

\* the number of calls a behaviour makes
MaxCalls == 4

\* one more call is made
Step ==
    /\ calls < MaxCalls
    /\ calls' = calls + 1
    /\ UNCHANGED poolVars

\* the outcome of a call: the error and value returned (tag is the second
\* result of Get), or the value it panicked with
Outcome(op, arg, err, ret, tag, panic) ==
    [op |-> op, arg |-> arg, err |-> err, ret |-> ret, tag |-> tag, panic |-> panic]

\* a call that returns nothing of interest (or the receiver itself)
Done(op, arg) == Outcome(op, arg, nil, NilIface, GoInvalidMapping, nil)

NonePassed == [t \in {Object, Array} |-> NilFactory]

Init ==
    /\ p = NewPayload
    /\ pooled = FALSE
    /\ last = Done("AcquirePayload", <<>>)
    /\ calls = 0
    /\ decoded = "never"
    /\ passed = NonePassed
    /\ PoolIdle

\* AcquirePayload after a release: payloadPool.Get hands back the pooled
\* instance, or nil (a sync.Pool may drop its items) and a new Payload is
\* made
AcquirePayload ==
    /\ Step
    /\ pooled
    /\ \/ p' = p /\ UNCHANGED decoded
       \/ p' = NewPayload /\ decoded' = "never"
    /\ pooled' = FALSE
    /\ last' = Done("AcquirePayload", <<>>)
    /\ UNCHANGED passed

\* ReleasePayload putting the instance back without resetting it
ReleasePayload_SkipsReset ==
    /\ Step
    /\ ~pooled
    /\ p' = p
    /\ pooled' = TRUE
    /\ last' = Done("ReleasePayload", <<>>)
    /\ passed' = NonePassed
    /\ UNCHANGED decoded

\* ReleasePayload(p) with p # nil; the instance is not used again before
\* it is acquired
ReleasePayload ==
    /\ Step
    /\ ~pooled
    /\ p' = Reset(p)
    /\ pooled' = TRUE
    /\ last' = Done("ReleasePayload", <<>>)
    /\ passed' = NonePassed
    /\ UNCHANGED decoded

CallReset ==
    /\ Step
    /\ ~pooled
    /\ p' = Reset(p)
    /\ last' = Done("Reset", <<>>)
    /\ passed' = NonePassed
    /\ UNCHANGED <<pooled, decoded>>

CallClear ==
    /\ Step
    /\ ~pooled
    /\ p' = Clear(p)
    /\ last' = Done("Clear", <<>>)
    /\ UNCHANGED <<pooled, decoded, passed>>

CallUnmarshalJSON ==
    \E b \in Inputs :
        LET r == UnmarshalJSON(p, b)
        IN  /\ Step
            /\ ~pooled
            /\ p' = r.p
            /\ last' = Outcome("UnmarshalJSON", b, r.err, NilIface, GoInvalidMapping, r.panic)
            /\ decoded' = IF r.panic # nil THEN "panicked"
                           ELSE IF r.err # nil THEN "failed" ELSE "ok"
            /\ UNCHANGED <<pooled, passed>>

CallGet ==
    /\ Step
    /\ ~pooled
    /\ last' = Outcome("Get", <<>>, nil, Get(p).ret, Get(p).mapping, nil)
    /\ UNCHANGED <<p, pooled, decoded, passed>>

\* a typed accessor that clears the Payload when it panics
CallAccessor_PanicClears ==
    \E a \in Accessors :
        /\ Step
        /\ ~pooled
        /\ last' = Outcome(a, <<>>, nil, Accessor(p, a).ret, GoInvalidMapping,
                           Accessor(p, a).panic)
        /\ p' = IF Accessor(p, a).panic # nil THEN Clear(p) ELSE p
        /\ UNCHANGED <<pooled, decoded, passed>>

CallAccessor ==
    \E a \in Accessors :
        /\ Step
        /\ ~pooled
        /\ last' = Outcome(a, <<>>, nil, Accessor(p, a).ret, GoInvalidMapping,
                           Accessor(p, a).panic)
        /\ UNCHANGED <<p, pooled, decoded, passed>>

CallIsNil ==
    /\ Step
    /\ ~pooled
    /\ last' = Outcome("IsNil", <<>>, nil, Iface("bool", IsNil(p)), GoInvalidMapping, nil)
    /\ UNCHANGED <<p, pooled, decoded, passed>>

CallGetMapping ==
    /\ Step
    /\ ~pooled
    /\ last' = Outcome("GetMapping", <<>>, nil, Iface("GoMapping", GetMapping(p)),
                       GoInvalidMapping, nil)
    /\ UNCHANGED <<p, pooled, decoded, passed>>

CallGetJSONType ==
    /\ Step
    /\ ~pooled
    /\ last' = Outcome("GetJSONType", <<>>, nil, Iface("JSONType", GetJSONType(p)),
                       GoInvalidMapping, nil)
    /\ UNCHANGED <<p, pooled, decoded, passed>>

\* a With* call that takes `enable ...bool`
Configure(op, q, enable) ==
    /\ Step
    /\ ~pooled
    /\ p' = q
    /\ last' = Done(op, enable)
    /\ UNCHANGED <<pooled, decoded, passed>>

CallWithNull == \E enable \in EnableArgs : Configure("WithNull", WithFlag(p, Null, enable), enable)

CallWithBoolean == \E enable \in EnableArgs : Configure("WithBoolean", WithFlag(p, Boolean, enable), enable)

CallWithString == \E enable \in EnableArgs : Configure("WithString", WithFlag(p, String, enable), enable)

CallWithNumber == \E enable \in EnableArgs : Configure("WithNumber", WithNumber(p, enable), enable)

CallWithFloat == \E enable \in EnableArgs : Configure("WithFloat", withNum(p, GoFloat, enable), enable)

CallWithInt == \E enable \in EnableArgs : Configure("WithInt", withNum(p, GoInt, enable), enable)

CallWithUint == \E enable \in EnableArgs : Configure("WithUint", withNum(p, GoUint, enable), enable)

CallWithArray ==
    \E f \in FactoryArgs :
        /\ Step
        /\ ~pooled
        /\ p' = WithArray(p, f)
        /\ last' = Done("WithArray", f)
        /\ passed' = [passed EXCEPT ![Array] = Append(f, WithDefaultArray)[1]]
        /\ UNCHANGED <<pooled, decoded>>

CallWithObject ==
    \E f \in FactoryArgs :
        /\ Step
        /\ ~pooled
        /\ p' = WithObject(p, f)
        /\ last' = Done("WithObject", f)
        /\ passed' = [passed EXCEPT ![Object] = Append(f, WithDefaultObject)[1]]
        /\ UNCHANGED <<pooled, decoded>>

Next ==
    \/ AcquirePayload
    \/ ReleasePayload
    \/ CallReset
    \/ CallClear
    \/ CallUnmarshalJSON
    \/ CallGet
    \/ CallAccessor
    \/ CallIsNil
    \/ CallGetMapping
    \/ CallGetJSONType
    \/ CallWithNull
    \/ CallWithBoolean
    \/ CallWithString
    \/ CallWithNumber
    \/ CallWithFloat
    \/ CallWithInt
    \/ CallWithUint
    \/ CallWithArray
    \/ CallWithObject

Spec == Init /\ [][Next]_vars

(***************************************************************************)
(* TypeOf on its own.  The inputs are the payloads of TestTypeOf_Raw, a    *)
(* literal beyond the float64 range, and every byte sequence of at most    *)
(* MaxLen bytes over TypeOfAlphabet.                                       *)
(***************************************************************************)
InFalse == <<"f", "a", "l", "s", "e">>

InBang == <<"!">>

InSpaceObject == <<" ", "{", "}">>

InMaxFloat64 == <<"1", ".", "7", "9", "7", "6", "9", "3", "1", "3", "4", "8", "6", "2", "3", "1", "5", "7", "0", "8", "1", "4", "5", "2", "7", "4", "2", "3", "7", "3", "1", "7", "0", "4", "3", "5", "6", "7", "9", "8", "1", "e", "+", "3", "0", "8">>

InMinFloat64 == <<"4", ".", "9", "4", "0", "6", "5", "6", "4", "5", "8", "4", "1", "2", "4", "6", "5", "4", "4", "1", "7", "6", "5", "6", "8", "7", "9", "2", "8", "6", "8", "2", "2", "1", "3", "7", "2", "3", "6", "5", "1", "e", "-", "3", "2", "4">>

InMinInt64 == <<"-", "9", "2", "2", "3", "3", "7", "2", "0", "3", "6", "8", "5", "4", "7", "7", "5", "8", "0", "8">>

InMaxUint64 == <<"1", "8", "4", "4", "6", "7", "4", "4", "0", "7", "3", "7", "0", "9", "5", "5", "1", "6", "1", "5">>

InHugeFloat == <<"1", "e", "4", "0", "0">>

InPi == <<"3", ".", "1", "4", "1", "5", "9", "2">>

TypeOfAlphabet == {"{", "[", "\"", "n", "t", "1", "0", "-", ".", "e", " ", "!"}

\* the length of the generated inputs
MaxLen == 3

ShortInputs == UNION {[1..n -> TypeOfAlphabet] : n \in 0..MaxLen}

TypeOfInputs ==
    ShortInputs \cup Inputs \cup
    {InFalse, InBang, InSpaceObject, InMaxFloat64, InMinFloat64, InMinInt64,
     InMaxUint64, InHugeFloat, InPi}

\* the caller holds the input it is about to hand to TypeOf
TypeOfInit ==
    /\ p = NewPayload
    /\ pooled = FALSE
    /\ \E jsonBytes \in TypeOfInputs : last = Done("jsonBytes", jsonBytes)
    /\ calls = 0
    /\ decoded = "never"
    /\ passed = NonePassed
    /\ PoolIdle

\* the call of TypeOf on that input; the Payload is not involved
CallTypeOf ==
    /\ Step
    /\ last.op = "jsonBytes"
    /\ last' = Outcome("TypeOf", last.arg, TypeOf(last.arg).err,
                       Iface("JSONType", TypeOf(last.arg).t), GoInvalidMapping, nil)
    /\ UNCHANGED <<p, pooled, decoded, passed>>

TypeOfSpec == TypeOfInit /\ [][CallTypeOf]_vars

(***************************************************************************)
(* Number decoding on its own: the calls that configure the numeric        *)
(* mapping and UnmarshalJSON on number literals, among them the limits of  *)
(* int64 and uint64 and the literals one past them.                        *)
(***************************************************************************)
InBigUint == <<"1", "8", "4", "4", "6", "7", "4", "4", "0", "7", "3", "7", "0", "9", "5", "5", "1", "6", "1", "6">>

InExponent == <<"1", "e", "2">>

NumberInputs ==
    {InNeg, InFrac, InPi, InExponent, InBigInt, InBigUint, InMinInt64, InMaxUint64,
     InHugeFloat}

CallUnmarshalNumber ==
    \E b \in NumberInputs :
        LET r == UnmarshalJSON(p, b)
        IN  /\ Step
            /\ ~pooled
            /\ p' = r.p
            /\ last' = Outcome("UnmarshalJSON", b, r.err, NilIface, GoInvalidMapping, r.panic)
            /\ decoded' = IF r.panic # nil THEN "panicked"
                           ELSE IF r.err # nil THEN "failed" ELSE "ok"
            /\ UNCHANGED <<pooled, passed>>

NumberNext ==
    \/ CallWithNumber
    \/ CallWithFloat
    \/ CallWithInt
    \/ CallWithUint
    \/ CallUnmarshalNumber

NumberSpec == Init /\ [][NumberNext]_vars

(***************************************************************************)
(* payloadPool shared by several goroutines.  payloadPool is a sync.Pool:  *)
(* Get removes an arbitrary item from the pool and returns it, or returns  *)
(* nil (the pool is empty, or it dropped its items, or they sit in the     *)
(* cache of another processor); Put adds an item; both are safe for        *)
(* concurrent use, so each is one step.  Every goroutine follows the       *)
(* documented use: it releases an instance once and does not touch it      *)
(* afterwards.                                                             *)
(***************************************************************************)
\* the number of Payloads allocated in a behaviour
MaxPayloads == 3

\* payloadPool after Get returned x
PoolGet_KeepsItem(pool, x) == pool

PoolGet(pool, x) == pool \ {x}

\* payloadPool after Put(x)
PoolPut(pool, x) == pool \cup {x}

\* the result of AcquirePayload in goroutine g
Acquired(g, x) ==
    /\ holds' = [holds EXCEPT ![g] = x]
    /\ last' = Outcome("AcquirePayload", <<g>>, nil, Iface("*Payload", x), GoInvalidMapping, nil)
    /\ UNCHANGED <<p, pooled, calls, decoded, passed>>

\* AcquirePayload called by goroutine g: the item Get returns, or a new
\* Payload at a new address when Get returns nil
AcquirePayloadBy(g) ==
    /\ holds[g] = NilAddr
    /\ \/ \E x \in payloadPool :
              /\ payloadPool' = PoolGet(payloadPool, x)
              /\ Acquired(g, x)
              /\ UNCHANGED heap
       \/ /\ Len(heap) < MaxPayloads
          /\ heap' = Append(heap, NewPayload)
          /\ Acquired(g, Len(heap) + 1)
          /\ UNCHANGED payloadPool

\* ReleasePayload(p) called by goroutine g with the instance it holds
ReleasePayloadBy(g) ==
    /\ holds[g] # NilAddr
    /\ heap' = [heap EXCEPT ![holds[g]] = Reset(@)]
    /\ payloadPool' = PoolPut(payloadPool, holds[g])
    /\ holds' = [holds EXCEPT ![g] = NilAddr]
    /\ last' = Done("ReleasePayload", <<g>>)
    /\ UNCHANGED <<p, pooled, calls, decoded, passed>>

\* goroutine g uses the instance it holds: WithNull() and a decode of null
UnmarshalJSONBy(g) ==
    /\ holds[g] # NilAddr
    /\ heap' = [heap EXCEPT ![holds[g]] = UnmarshalJSON(WithFlag(@, Null, <<>>), InNull).p]
    /\ last' = Outcome("UnmarshalJSON", InNull, nil, NilIface, GoInvalidMapping, nil)
    /\ UNCHANGED <<p, pooled, calls, decoded, passed, payloadPool, holds>>

PoolNext ==
    \E g \in Goroutines :
        \/ AcquirePayloadBy(g)
        \/ ReleasePayloadBy(g)
        \/ UnmarshalJSONBy(g)

PoolSpec == Init /\ [][PoolNext]_vars

(***************************************************************************)
(* Two Payloads with one configuration and two histories.  heap holds two  *)
(* Payloads made at the start; every configuration call is made on both,   *)
(* the first alone decodes inputs the second never sees, and then both     *)
(* decode the same input.  decoded is how the most recent decode of the    *)
(* first alone ended.                                                      *)
(***************************************************************************)
TwinInputs == {InEmpty, InTrue, InNeg, InBigInt, InString, InObject, InBadObject}

\* the configuration calls with their arguments
ConfigurationArgs ==
    [op : {"WithNull", "WithBoolean", "WithString", "WithNumber", "WithInt", "WithUint",
           "WithFloat"},
     arg : EnableArgs]
    \cup [op : {"WithObject", "WithArray"}, arg : FactoryArgs]

\* the Payload q after the configuration call c
Configured(q, c) ==
    CASE c.op = "WithNull" -> WithFlag(q, Null, c.arg)
      [] c.op = "WithBoolean" -> WithFlag(q, Boolean, c.arg)
      [] c.op = "WithString" -> WithFlag(q, String, c.arg)
      [] c.op = "WithNumber" -> WithNumber(q, c.arg)
      [] c.op = "WithInt" -> withNum(q, GoInt, c.arg)
      [] c.op = "WithUint" -> withNum(q, GoUint, c.arg)
      [] c.op = "WithFloat" -> withNum(q, GoFloat, c.arg)
      [] c.op = "WithObject" -> WithObject(q, c.arg)
      [] c.op = "WithArray" -> WithArray(q, c.arg)

TwinInit ==
    /\ p = NewPayload
    /\ pooled = FALSE
    /\ last = Done("AcquirePayload", <<>>)
    /\ calls = 0
    /\ decoded = "never"
    /\ passed = NonePassed
    /\ heap = <<NewPayload, NewPayload>>
    /\ payloadPool = {}
    /\ holds = [g \in Goroutines |-> NilAddr]

\* one more call is made on the twins; their common decode is the last one
TwinStep ==
    /\ calls < MaxCalls
    /\ last.op # "UnmarshalJSON"
    /\ calls' = calls + 1
    /\ UNCHANGED <<p, pooled, passed, payloadPool, holds>>

\* the same configuration call on both
ConfigureTwins ==
    \E c \in ConfigurationArgs :
        /\ TwinStep
        /\ heap' = <<Configured(heap[1], c), Configured(heap[2], c)>>
        /\ last' = Done(c.op, c.arg)
        /\ UNCHANGED decoded

\* the first alone has decoded b with the result r
FirstDecoded(b, r) ==
    /\ TwinStep
    /\ r.panic = nil
    /\ heap' = <<r.p, heap[2]>>
    /\ last' = Done("UnmarshalJSON(first)", b)
    /\ decoded' = IF r.err # nil THEN "failed" ELSE "ok"

\* UnmarshalJSON on the first alone
DecodeFirst == \E b \in TwinInputs : FirstDecoded(b, UnmarshalJSON(heap[1], b))

\* both have decoded b, with the results r1 and r2; last is the outcome of
\* the first
TwinsDecoded(b, r1, r2) ==
    /\ TwinStep
    /\ heap' = <<r1.p, r2.p>>
    /\ last' = Outcome("UnmarshalJSON", b, r1.err, NilIface, GoInvalidMapping, r1.panic)
    /\ UNCHANGED decoded

\* UnmarshalJSON of the same input on both
DecodeTwins ==
    \E b \in TwinInputs :
        TwinsDecoded(b, UnmarshalJSON(heap[1], b), UnmarshalJSON(heap[2], b))

TwinNext == ConfigureTwins \/ DecodeFirst \/ DecodeTwins

TwinSpec == TwinInit /\ [][TwinNext]_vars

(***************************************************************************)
(* Properties.                                                             *)
(***************************************************************************)
\* the last call was an UnmarshalJSON that returned (did not panic)
UnmarshalReturned == last.op = "UnmarshalJSON" /\ last.panic = nil

NoneAccepted(q) == \A t \in JSONTypes : ~q.with[t]

\* C1: when UnmarshalJSON returns a non-nil error the tag is
\* GoInvalidMapping afterwards, and so it is while the most recent decode
\* on the instance failed or no decode was ever made
C1_FailedDecodeLeavesInvalidTag ==
    /\ (UnmarshalReturned /\ last.err # nil) => GetMapping(p) = GoInvalidMapping
    /\ decoded \in {"never", "failed"} => GetMapping(p) = GoInvalidMapping

\* a Number literal that does not parse under the configured mapping
C1_Witness ==
    /\ UnmarshalReturned
    /\ last.err = StrconvErrSyntax
    /\ last.arg = InFrac
    /\ p.numType = GoUint
    /\ GetJSONType(p) = Number
    /\ GetMapping(p) = GoInvalidMapping

\* C2: a decode whose sniffed type is not accepted returns exactly
\* ErrUnexpectedType, leaves the tag GoInvalidMapping and leaves the
\* sniffed type readable through GetJSONType
C2_RejectedTypeStaysObservable ==
    [][(/\ last'.op = "UnmarshalJSON"
        /\ TypeOf(last'.arg).err = nil
        /\ ~p.with[TypeOf(last'.arg).t])
       => (/\ last'.panic = nil
           /\ last'.err = ErrUnexpectedType
           /\ GetMapping(p)' = GoInvalidMapping
           /\ GetJSONType(p)' = TypeOf(last'.arg).t)]_vars

\* `true` on a Payload that accepts String but not Boolean
C2_Witness ==
    /\ UnmarshalReturned
    /\ last.arg = InTrue
    /\ last.err = ErrUnexpectedType
    /\ p.with[String]
    /\ ~p.with[Boolean]
    /\ GetJSONType(p) = Boolean
    /\ GetMapping(p) = GoInvalidMapping

\* the tag a successful decode of JSON type t gives under numeric mapping m
ExpectedTag(t, m) ==
    CASE t = Null -> GoNil
      [] t = Boolean -> GoBool
      [] t = String -> GoString
      [] t \in {Object, Array} -> GoOther
      [] t = Number -> m

\* C3: after a successful decode the tag is the one of the sniffed type,
\* and for a Number it is the numeric mapping configured when the decode
\* was made (one of GoInt, GoUint, GoFloat), whatever the literal looks like
C3_TagFollowsTypeAndConfiguration ==
    [][(last'.op = "UnmarshalJSON" /\ last'.panic = nil /\ last'.err = nil)
       => (/\ GetMapping(p)' = ExpectedTag(TypeOf(last'.arg).t, p.numType)
           /\ GetMapping(p)' # GoInvalidMapping
           /\ TypeOf(last'.arg).t = Number => p.numType \in {GoInt, GoUint, GoFloat})]_vars

\* an integer literal decoded into the float slot because GoFloat is the
\* configured numeric mapping
C3_Witness ==
    /\ UnmarshalReturned
    /\ last.err = nil
    /\ last.arg = InNeg
    /\ GetMapping(p) = GoFloat

\* C4: after WithObject() and then WithArray(), both with the default
\* factories, decoding {"some":"data"} returns nil with JSON type Object and
\* tag GoOther
C4_ObjectThenArrayDecodesObject ==
    [][(/\ last.op = "WithArray"
        /\ last.arg = <<>>
        /\ passed[Object] = WithDefaultObject
        /\ passed[Array] = WithDefaultArray
        /\ last'.op = "UnmarshalJSON"
        /\ last'.arg = InObject)
       => (/\ last'.panic = nil
           /\ last'.err = nil
           /\ GetJSONType(p)' = Object
           /\ GetMapping(p)' = GoOther)]_vars

\* C5: with a factory given for Object and one given for Array, in either
\* order, a decode of a composite type fills the target made by the factory
\* most recently given for that same type
C5_FactoryOfTheSameType ==
    [][(/\ last'.op = "UnmarshalJSON"
        /\ TypeOf(last'.arg).t \in {Object, Array}
        /\ passed[Object] # NilFactory
        /\ passed[Array] # NilFactory)
       => (/\ last'.panic = nil
           /\ p'.pOther.factory = CallFactory(passed[TypeOf(last'.arg).t]).factory)]_vars

\* C6: a typed accessor panics with ErrUnexpectedMapping exactly when the
\* tag differs from its mapping, and otherwise returns the value Get returns
C6_TypedAccessorsPanicOnMismatch ==
    last.op \in Accessors =>
        /\ GetMapping(p) # AccessorMapping[last.op] => last.panic = ErrUnexpectedMapping
        /\ GetMapping(p) = AccessorMapping[last.op] =>
               (last.panic = nil /\ last.ret = Get(p).ret)

\* GetBool after a successful String decode
C6_Witness ==
    /\ last.op = "GetBool"
    /\ decoded = "ok"
    /\ GetMapping(p) = GoString
    /\ last.panic = ErrUnexpectedMapping

\* the value of the slot the tag names
SlotNamedByTag(q) ==
    CASE q.mapping = GoBool -> Iface("bool", q.pBool)
      [] q.mapping = GoInt -> Iface("int64", q.pInt)
      [] q.mapping = GoUint -> Iface("uint64", q.pUint)
      [] q.mapping = GoFloat -> Iface("float64", q.pFloat)
      [] q.mapping = GoString -> Iface("string", q.pString)
      [] q.mapping = GoOther ->
           IF q.pOther = NilTarget THEN NilIface ELSE Iface("pointer", q.pOther)

\* C7: Get never panics; it returns (nil, GoInvalidMapping) when no decode
\* was made or the most recent one returned an error, (nil, GoNil) when the
\* tag is GoNil, and otherwise the slot named by the tag with that tag
C7_GetNeverPanics ==
    last.op = "Get" =>
        /\ last.panic = nil
        /\ last.tag = GetMapping(p)
        /\ decoded \in {"never", "failed"} =>
               (last.ret = NilIface /\ last.tag = GoInvalidMapping)
        /\ GetMapping(p) \in {GoInvalidMapping, GoNil} => last.ret = NilIface
        /\ GetMapping(p) \notin {GoInvalidMapping, GoNil} => last.ret = SlotNamedByTag(p)

\* Get after a decode that failed while filling the slot of an accepted type
C7_Witness ==
    /\ last.op = "Get"
    /\ decoded = "failed"
    /\ GetJSONType(p) = Number
    /\ p.with[Number]
    /\ last.ret = NilIface
    /\ last.tag = GoInvalidMapping

\* C8: Reset leaves the Payload equal, field by field, to a new Payload
C8_ResetEqualsNew ==
    last.op = "Reset" =>
        /\ p = NewPayload
        /\ GetMapping(p) = GoInvalidMapping
        /\ GetJSONType(p) = InvalidJSON
        /\ NoneAccepted(p)
        /\ p.numType = GoInvalidMapping
        /\ p.otherFactory = NilFactory
        /\ p.pBool = FALSE /\ p.pInt = IntZero /\ p.pUint = IntZero
        /\ p.pFloat = FloatZero /\ p.pString = <<>> /\ p.pOther = NilTarget

\* Reset of an instance that was configured and successfully decoded
C8_Witness ==
    /\ last.op = "Reset"
    /\ decoded = "ok"
    /\ calls >= 3
    /\ p = NewPayload

\* C9: a Payload that accepts no JSON type returns a non-nil error from
\* UnmarshalJSON for every input and keeps the tag GoInvalidMapping
C9_UnconfiguredRejectsEverything ==
    [][(last'.op = "UnmarshalJSON" /\ NoneAccepted(p))
       => (/\ last'.panic = nil
           /\ last'.err # nil
           /\ GetMapping(p)' = GoInvalidMapping)]_vars

\* a well-formed null handed to a Payload that accepts nothing
C9_Witness ==
    /\ UnmarshalReturned
    /\ last.arg = InNull
    /\ NoneAccepted(p)
    /\ last.err = ErrUnexpectedType
    /\ GetMapping(p) = GoInvalidMapping

\* C10: UnmarshalJSON and Clear leave the acceptance flags, the numeric
\* mapping and the composite factory as they were
C10_DecodeAndClearKeepConfiguration ==
    [][(last'.op \in {"UnmarshalJSON", "Clear"})
       => (/\ p'.with = p.with
           /\ p'.numType = p.numType
           /\ p'.otherFactory = p.otherFactory)]_vars

\* a failed decode on a Payload with a numeric mapping and a factory
C10_Witness ==
    /\ last.op = "UnmarshalJSON"
    /\ decoded = "failed"
    /\ p.with[Number]
    /\ p.numType = GoUint
    /\ p.with[Array]
    /\ p.otherFactory = WithDefaultArray

\* C11: TypeOf of a zero-length input is (InvalidJSON, ErrEmpty), and
\* UnmarshalJSON of a zero-length input returns ErrEmpty
C11_EmptyInputIsErrEmpty ==
    /\ TypeOf(InEmpty) = [t |-> InvalidJSON, err |-> ErrEmpty]
    /\ (last.op = "UnmarshalJSON" /\ Len(last.arg) = 0) =>
           (last.panic = nil /\ last.err = ErrEmpty /\ GetJSONType(p) = InvalidJSON)

\* the empty input handed to a Payload that accepts Null
C11_Witness ==
    /\ last.op = "UnmarshalJSON"
    /\ last.arg = InEmpty
    /\ p.with[Null]
    /\ last.err = ErrEmpty

\* the outcome of a TypeOf call that returned type t and error err
TypeOfReturned(t, err) ==
    /\ last.panic = nil
    /\ last.err = err
    /\ last.ret = Iface("JSONType", t)

\* the type the first byte of a composite or of a string stands for
TypeOfFirstByte(c) ==
    CASE c = "{" -> Object
      [] c = "[" -> Array
      [] c = "\"" -> String

\* C12: on an input whose first byte is {, [ or " TypeOf returns Object,
\* Array or String with a nil error, and the same as on that byte alone,
\* whatever follows it
C12_FirstByteDecides ==
    (/\ last.op = "TypeOf"
     /\ Len(last.arg) > 0
     /\ last.arg[1] \in {"{", "[", "\""})
    => (/\ TypeOfReturned(TypeOfFirstByte(last.arg[1]), nil)
        /\ TypeOf(last.arg) = TypeOf(<<last.arg[1]>>))

\* an object opener followed by bytes that are no JSON
C12_Witness ==
    /\ last.op = "TypeOf"
    /\ last.arg = <<"{", "!", "1">>
    /\ TypeOfReturned(Object, nil)

\* C13: TypeOf returns Null for `null` and Boolean for `true` and `false`,
\* each with a nil error
C13_NullAndBooleanLiterals ==
    last.op = "TypeOf" =>
        /\ last.arg = InNull => TypeOfReturned(Null, nil)
        /\ last.arg \in {InTrue, InFalse} => TypeOfReturned(Boolean, nil)

\* the literal false
C13_Witness ==
    /\ last.op = "TypeOf"
    /\ last.arg = InFalse
    /\ TypeOfReturned(Boolean, nil)

\* the first index from i on at which b holds no digit
RECURSIVE DigitsEnd(_, _)
DigitsEnd(b, i) ==
    IF i <= Len(b) /\ IsDigit(b[i]) THEN DigitsEnd(b, i + 1) ELSE i

\* the grammar of a JSON number (RFC 8259): [-] int [frac] [exp]; each
\* End is the index after the part, 0 when the part is malformed
NumberIntEnd(b) ==
    LET s == IF Len(b) > 0 /\ b[1] = "-" THEN 2 ELSE 1
    IN  IF s > Len(b) \/ ~IsDigit(b[s]) THEN 0
        ELSE IF b[s] = "0" THEN s + 1
        ELSE DigitsEnd(b, s)

NumberFracEnd(b, i) ==
    IF i = 0 THEN 0
    ELSE IF i <= Len(b) /\ b[i] = "."
    THEN IF DigitsEnd(b, i + 1) > i + 1 THEN DigitsEnd(b, i + 1) ELSE 0
    ELSE i

NumberExpEnd(b, i) ==
    IF i = 0 THEN 0
    ELSE IF i <= Len(b) /\ b[i] \in {"e", "E"}
    THEN LET d == IF i + 1 <= Len(b) /\ b[i + 1] \in {"+", "-"} THEN i + 2 ELSE i + 1
         IN  IF DigitsEnd(b, d) > d THEN DigitsEnd(b, d) ELSE 0
    ELSE i

IsJSONNumber(b) == NumberExpEnd(b, NumberFracEnd(b, NumberIntEnd(b))) = Len(b) + 1

\* C14: TypeOf returns Number with a nil error for every syntactically
\* valid JSON number literal, whether or not its value fits a machine number
C14_EveryNumberLiteralIsNumber ==
    (last.op = "TypeOf" /\ IsJSONNumber(last.arg)) => TypeOfReturned(Number, nil)

\* C15: on a non-empty input that does not start with {, [ or " and is
\* none of null, true, false or a JSON number, TypeOf returns InvalidJSON
\* with exactly ErrUnknownType
C15_OtherInputsAreUnknownType ==
    (/\ last.op = "TypeOf"
     /\ Len(last.arg) > 0
     /\ last.arg[1] \notin {"{", "[", "\""}
     /\ last.arg \notin {InNull, InTrue, InFalse}
     /\ ~IsJSONNumber(last.arg))
    => TypeOfReturned(InvalidJSON, ErrUnknownType)

\* the digits of an integer literal without its sign and leading zeros
LiteralMag(b) == StripZeros(IF b[1] = "-" THEN Tail(b) ELSE b)

\* a JSON number literal that names no value of the integer mapping m: it
\* has a fractional part, is negative under GoUint, or is an integer
\* outside the 64-bit range of m
NotAnIntegerOf(b, m) ==
    \/ \E k \in 1..Len(b) : b[k] = "."
    \/ m = GoUint /\ b[1] = "-"
    \/ /\ \A k \in 1..Len(b) : IsDigit(b[k]) \/ (k = 1 /\ b[k] = "-")
       /\ \/ m = GoUint /\ CmpMag(LiteralMag(b), MaxUint64Mag) > 0
          \/ m = GoInt /\ b[1] # "-" /\ CmpMag(LiteralMag(b), MaxInt64Mag) > 0
          \/ m = GoInt /\ b[1] = "-" /\ CmpMag(LiteralMag(b), Int64Cutoff) > 0

\* C16: under the GoInt or GoUint mapping a Number literal with a
\* fractional part, negative under GoUint, or outside the 64-bit range of
\* the mapping makes UnmarshalJSON return an error and leaves the tag
\* GoInvalidMapping
C16_IntegerMappingsRejectOtherNumbers ==
    (/\ last.op = "UnmarshalJSON"
     /\ IsJSONNumber(last.arg)
     /\ p.with[Number]
     /\ p.numType \in {GoInt, GoUint}
     /\ NotAnIntegerOf(last.arg, p.numType))
    => (/\ last.panic = nil
        /\ last.err \in {StrconvErrSyntax, StrconvErrRange}
        /\ GetMapping(p) = GoInvalidMapping
        /\ Get(p).ret = NilIface)

\* a literal one past the uint64 range decoded under GoUint
C16_Witness ==
    /\ last.op = "UnmarshalJSON"
    /\ last.arg = InBigUint
    /\ p.with[Number]
    /\ p.numType = GoUint
    /\ last.err = StrconvErrRange
    /\ GetMapping(p) = GoInvalidMapping

\* the numeric mapping each Number configuration call stands for
NumberCallMapping ==
    [WithInt |-> GoInt, WithUint |-> GoUint, WithFloat |-> GoFloat, WithNumber |-> GoInt]

\* C17: after an enabling WithInt, WithUint, WithFloat or WithNumber call
\* (no argument or true) Number is accepted and the numeric mapping is the
\* one of that call, whatever was configured before
C17_LastNumberCallWins ==
    (last.op \in DOMAIN NumberCallMapping /\ last.arg \in {<<>>, <<TRUE>>})
    => (/\ p.with[Number]
        /\ p.numType = NumberCallMapping[last.op])

\* WithInt on a Payload that had decoded a number under the GoFloat mapping
C17_Witness ==
    /\ last.op = "WithInt"
    /\ last.arg = <<>>
    /\ GetMapping(p) = GoFloat
    /\ p.with[Number]
    /\ p.numType = GoInt

\* C18: WithInt(false), WithUint(false) and WithFloat(false) stop the
\* acceptance of Number when the mapping of the call is the active one and
\* change nothing else; when another mapping is active they change nothing
C18_DisableOnlyTheActiveMapping ==
    [][(last'.op \in {"WithInt", "WithUint", "WithFloat"} /\ last'.arg = <<FALSE>>)
       => IF p.numType = NumberCallMapping[last'.op]
          THEN p' = [p EXCEPT !.with[Number] = FALSE]
          ELSE p' = p]_vars

\* WithInt(false) after WithUint(): Number stays accepted as GoUint
C18_Witness ==
    /\ last.op = "WithInt"
    /\ last.arg = <<FALSE>>
    /\ p.with[Number]
    /\ p.numType = GoUint

\* C19: WithNumber(false) stops the acceptance of Number whichever mapping
\* is active, so that a Number decoded right after it is rejected with
\* ErrUnexpectedType; WithNumber() and WithNumber(true) leave the Payload
\* as WithInt() does
C19_WithNumberDisablesAndDefaultsToInt ==
    [][/\ (last'.op = "WithNumber" /\ last'.arg = <<FALSE>>)
          => p' = [p EXCEPT !.with[Number] = FALSE]
       /\ (/\ last.op = "WithNumber"
           /\ last.arg = <<FALSE>>
           /\ last'.op = "UnmarshalJSON"
           /\ IsJSONNumber(last'.arg))
          => (last'.panic = nil /\ last'.err = ErrUnexpectedType)
       /\ (last'.op = "WithNumber" /\ last'.arg \in {<<>>, <<TRUE>>})
          => p' = withNum(p, GoInt, <<>>)]_vars

\* the JSON type each of WithNull, WithBoolean and WithString configures
FlagCallType == [WithNull |-> Null, WithBoolean |-> Boolean, WithString |-> String]

\* C20: a WithNull, WithBoolean or WithString call sets the acceptance of
\* its own type to its argument (no argument or true enables, false
\* disables) and changes nothing else, so the last call for a type decides;
\* the same call made twice in a row changes nothing the second time
C20_FlagFollowsLastCall ==
    [][last'.op \in DOMAIN FlagCallType
       => (/\ p' = [p EXCEPT !.with[FlagCallType[last'.op]] = (last'.arg \in {<<>>, <<TRUE>>})]
           /\ (last.op = last'.op /\ last.arg = last'.arg) => p' = p)]_vars

\* WithString(false) on a Payload that had accepted and decoded a string
C20_Witness ==
    /\ last.op = "WithString"
    /\ last.arg = <<FALSE>>
    /\ GetMapping(p) = GoString
    /\ ~p.with[String]

\* the composite type a With* call with a factory argument configures
OtherCallType == [WithArray |-> Array, WithObject |-> Object]

\* the default factory of a composite type
DefaultFactory == [t \in {Object, Array} |-> IF t = Object THEN WithDefaultObject ELSE WithDefaultArray]

\* C21: WithObject() and WithArray() enable the type with its default
\* factory, a call with a non-nil factory enables the type with that
\* factory, a call with nil turns the type off; a decode of a composite type
\* whose most recent factory argument was nil (or that was never
\* configured) returns ErrUnexpectedType
C21_FactoryArgumentDecides ==
    /\ last.op \in DOMAIN OtherCallType =>
           LET t == OtherCallType[last.op]
               f == IF last.arg = <<>> THEN DefaultFactory[t] ELSE last.arg[1]
           IN  /\ p.with[t] = (f # NilFactory)
               /\ p.otherFactory = f
    /\ (last.op = "UnmarshalJSON"
        /\ TypeOf(last.arg).t \in {Object, Array}
        /\ passed[TypeOf(last.arg).t] = NilFactory) =>
           (last.err = ErrUnexpectedType /\ last.panic = nil)

\* an array is refused after WithObject() and then WithArray(nil)
C21_Witness ==
    /\ last.op = "UnmarshalJSON"
    /\ last.arg = InArray
    /\ last.err = ErrUnexpectedType
    /\ passed[Object] = WithDefaultObject
    /\ passed[Array] = NilFactory
    /\ p.otherFactory = NilFactory

\* C22: the Payload AcquirePayload returns is in the state of a new
\* Payload (nothing accepted, no factory, no numeric mapping, tag and JSON
\* type invalid, every slot zero), whether it is a new instance or one that
\* was released with a configuration and a decoded value
C22_AcquiredIsNew ==
    last.op = "AcquirePayload" => (p = NewPayload /\ ~pooled)

\* the pool handed back an instance that had decoded a value before its
\* release
C22_Witness ==
    /\ last.op = "AcquirePayload"
    /\ decoded = "ok"
    /\ ~pooled
    /\ p = NewPayload

\* C23: with several goroutines calling AcquirePayload and ReleasePayload,
\* no Payload is held by two goroutines at once: an instance a goroutine
\* holds is held by no other goroutine and is not in the pool, so no
\* AcquirePayload returns it before its release
C23_NoInstanceHeldTwice ==
    \A g \in Goroutines :
        holds[g] # NilAddr =>
            /\ \A h \in Goroutines \ {g} : holds[h] # holds[g]
            /\ holds[g] \notin payloadPool
            /\ holds[g] \in DOMAIN heap

\* goroutine 2 is handed the recycled first instance while goroutine 1
\* holds the second
C23_Witness ==
    /\ last.op = "AcquirePayload"
    /\ last.arg = <<2>>
    /\ last.ret = Iface("*Payload", 1)
    /\ holds[2] = 1
    /\ holds[1] = 2

\* C24: IsNil never panics and returns true exactly when the tag is GoNil;
\* the tag is GoNil exactly after a decode that returned nil for a JSON
\* null, so IsNil is false before any decode, after a failed decode and
\* after a successful decode of any other type
C24_IsNilIffNullDecoded ==
    /\ last.op = "IsNil" =>
           /\ last.panic = nil
           /\ last.ret = Iface("bool", GetMapping(p) = GoNil)
           /\ decoded \in {"never", "failed"} => last.ret = Iface("bool", FALSE)
           /\ (decoded = "ok" /\ GetJSONType(p) # Null) => last.ret = Iface("bool", FALSE)
    /\ last.op = "UnmarshalJSON" =>
           (GetMapping(p) = GoNil <=>
                (last.panic = nil /\ last.err = nil /\ TypeOf(last.arg).t = Null))
    /\ GetMapping(p) = GoNil => (decoded = "ok" /\ GetJSONType(p) = Null)

\* IsNil answers true after null was decoded
C24_Witness ==
    /\ last.op = "IsNil"
    /\ last.ret = Iface("bool", TRUE)
    /\ decoded = "ok"
    /\ GetJSONType(p) = Null

\* IsNil answers false after a string was decoded
C24_WitnessFalse ==
    /\ last.op = "IsNil"
    /\ last.ret = Iface("bool", FALSE)
    /\ decoded = "ok"
    /\ GetJSONType(p) = String

\* C25: when the sniffed type is Object or Array, the type is accepted and
\* the configured factory returns nil, UnmarshalJSON returns exactly
\* ErrUnexpectedType and the tag is GoInvalidMapping afterwards
C25_NilTargetIsUnexpectedType ==
    (/\ UnmarshalReturned
     /\ TypeOf(last.arg).t \in {Object, Array}
     /\ p.with[TypeOf(last.arg).t]
     /\ p.otherFactory = CallerNilFactory) =>
        (last.err = ErrUnexpectedType /\ GetMapping(p) = GoInvalidMapping)

\* C26: when TypeOf fails on the input, UnmarshalJSON returns the error
\* TypeOf returned, whatever the Payload accepts (so never ErrUnexpectedType
\* in place of it), and afterwards GetJSONType() is InvalidJSON and
\* GetMapping() is GoInvalidMapping
C26_SnifferErrorIsReturned ==
    (last.op = "UnmarshalJSON" /\ TypeOf(last.arg).err # nil) =>
        /\ last.panic = nil
        /\ last.err = TypeOf(last.arg).err
        /\ last.err # ErrUnexpectedType
        /\ GetJSONType(p) = InvalidJSON
        /\ GetMapping(p) = GoInvalidMapping

\* a Payload that accepts nothing is given input the sniffer cannot classify
C26_Witness ==
    /\ last.op = "UnmarshalJSON"
    /\ last.arg = InWhatever
    /\ NoneAccepted(p)
    /\ last.err = JSONSyntaxError
    /\ GetJSONType(p) = InvalidJSON

\* the configuration calls
ConfigurationCalls ==
    {"WithNull", "WithBoolean", "WithString", "WithNumber", "WithInt", "WithUint",
     "WithFloat", "WithObject", "WithArray"}

\* the decoded part of a Payload: tag, JSON type and the six value slots
DecodedPart(q) ==
    <<q.mapping, q.jsonType, q.pBool, q.pInt, q.pUint, q.pFloat, q.pString, q.pOther>>

\* C27: a configuration call leaves the tag, the JSON type and every value
\* slot as they were, in any state, so Get and the accessor of the tag
\* return after the call what they returned before it
C27_ConfigurationKeepsValue ==
    [][last'.op \in ConfigurationCalls =>
           /\ DecodedPart(p') = DecodedPart(p)
           /\ Get(p') = Get(p)
           /\ \A a \in Accessors : Accessor(p', a) = Accessor(p, a)]_vars

\* Null is turned off on a Payload that holds a decoded integer
C27_Witness ==
    /\ last.op = "WithNull"
    /\ last.arg = <<FALSE>>
    /\ decoded = "ok"
    /\ GetMapping(p) = GoInt
    /\ p.pInt = IntVal(TRUE, <<"2", "0">>)

\* the value slots of a Payload and the zero value of each
ZeroSlot ==
    [pBool |-> FALSE, pInt |-> IntZero, pUint |-> IntZero, pFloat |-> FloatZero,
     pString |-> <<>>, pOther |-> NilTarget]

\* the slot each tag names (GoInvalidMapping and GoNil name none)
TagSlot ==
    [m \in GoMappings |->
        CASE m = GoBool -> {"pBool"}
          [] m = GoInt -> {"pInt"}
          [] m = GoUint -> {"pUint"}
          [] m = GoFloat -> {"pFloat"}
          [] m = GoString -> {"pString"}
          [] m = GoOther -> {"pOther"}
          [] OTHER -> {}]

\* C28: after every UnmarshalJSON call that returns, with or without an
\* error, every value slot other than the one the tag names holds its zero
\* value; with the tag GoInvalidMapping all six slots are zero or nil
C28_OnlyTheTaggedSlotIsSet ==
    UnmarshalReturned =>
        \A s \in DOMAIN ZeroSlot \ TagSlot[GetMapping(p)] : p[s] = ZeroSlot[s]

\* C29: after every UnmarshalJSON call GetJSONType() is the type TypeOf
\* returns for the input of that call (InvalidJSON when TypeOf fails),
\* whether or not the type was accepted and whether or not the slot could
\* be filled; the type of an earlier decode is never kept
C29_JSONTypeIsTheSniffedType ==
    last.op = "UnmarshalJSON" => GetJSONType(p) = TypeOf(last.arg).t

\* an accepted object that json.Unmarshal refuses still reports Object
C29_Witness ==
    /\ UnmarshalReturned
    /\ last.arg = InBadObject
    /\ p.with[Object]
    /\ last.err = JSONSyntaxError
    /\ GetMapping(p) = GoInvalidMapping
    /\ GetJSONType(p) = Object

\* C30: on a Payload accepting String, the decode of a well-formed JSON
\* string literal, whatever JSON escape sequences it holds, returns nil and
\* sets the tag to GoString; a literal without escape sequences is read as
\* the bytes between its quotes, so "hello" gives hello
C30_EveryStringLiteralDecodes ==
    (/\ UnmarshalReturned
     /\ TypeOf(last.arg).t = String
     /\ checkValid(last.arg)
     /\ p.with[String]) =>
        /\ last.err = nil
        /\ GetMapping(p) = GoString
        /\ (\A k \in 1..Len(last.arg) : last.arg[k] # "\\") =>
               p.pString = SubSeq(last.arg, 2, Len(last.arg) - 1)

\* C31: on a Payload accepting Boolean, every input TypeOf classifies as
\* Boolean decodes without error to the tag GoBool, and the bool slot is
\* true exactly when the literal in the input is true, also when white
\* space or other bytes TypeOf tolerates surround the literal
C31_BoolSlotIsTheLiteral ==
    (/\ UnmarshalReturned
     /\ TypeOf(last.arg).t = Boolean
     /\ p.with[Boolean]) =>
        /\ last.err = nil
        /\ GetMapping(p) = GoBool
        /\ p.pBool = (last.arg[SkipSpace(last.arg, 1)] = "t")

\* C32: an input made of JSON white space followed by a value that starts
\* with {, [ or " is classified by TypeOf as Object, Array or String, as the
\* same input without the white space is
C32_LeadingSpaceIsSkipped ==
    (/\ last.op = "TypeOf"
     /\ Len(last.arg) > 0
     /\ isSpace(last.arg[1])
     /\ SkipSpace(last.arg, 1) <= Len(last.arg)
     /\ last.arg[SkipSpace(last.arg, 1)] \in {"{", "[", "\""}
     /\ ScanValue(last.arg, SkipSpace(last.arg, 1)) > 0)
    => (/\ TypeOfReturned(TypeOfFirstByte(last.arg[SkipSpace(last.arg, 1)]), nil)
        /\ TypeOf(last.arg)
              = TypeOf(SubSeq(last.arg, SkipSpace(last.arg, 1), Len(last.arg))))

\* C33: in every state reached by configuration calls, Clear, Reset and
\* UnmarshalJSON, a Payload accepting Object or Array has a non-nil
\* composite factory, and so UnmarshalJSON never calls a nil factory: it
\* never panics, whatever the input
C33_AcceptedCompositeHasFactory ==
    /\ (p.with[Object] \/ p.with[Array]) => p.otherFactory # NilFactory
    /\ last.op = "UnmarshalJSON" => last.panic = nil

\* the numeric mappings
NumberMappings == {GoInt, GoUint, GoFloat}

\* C34: in every state reached by configuration calls, Clear, Reset and
\* UnmarshalJSON, a Payload accepting Number has GoInt, GoUint or GoFloat as
\* its numeric mapping, and so a decode of a Number that returns nil leaves
\* one of these three as the tag, never GoInvalidMapping
C34_AcceptedNumberHasMapping ==
    /\ p.with[Number] => p.numType \in NumberMappings
    /\ (UnmarshalReturned /\ last.err = nil /\ TypeOf(last.arg).t = Number) =>
           (GetMapping(p) \in NumberMappings /\ GetMapping(p) = p.numType)

\* -20 decoded to the int slot two calls after the acquisition
C34_Witness ==
    /\ UnmarshalReturned
    /\ last.err = nil
    /\ last.arg = InNeg
    /\ p.numType = GoInt
    /\ GetMapping(p) = GoInt
    /\ p.pInt = IntVal(TRUE, <<"2", "0">>)
    /\ calls = 3

\* the JSON types a tag can stand for
TagJSONTypes ==
    [m \in GoMappings |->
        CASE m = GoOther -> {Object, Array}
          [] m = GoNil -> {Null}
          [] m = GoString -> {String}
          [] m = GoBool -> {Boolean}
          [] m \in {GoInt, GoUint, GoFloat} -> {Number}
          [] OTHER -> {InvalidJSON} \cup JSONTypes]

\* C35: in every reachable state the tag agrees with the decoded JSON type:
\* GoOther goes with Object or Array, GoNil with Null, GoString with String,
\* GoBool with Boolean, GoInt, GoUint and GoFloat with Number, and the JSON
\* type InvalidJSON goes with the tag GoInvalidMapping
C35_TagAgreesWithJSONType ==
    /\ GetJSONType(p) \in TagJSONTypes[GetMapping(p)]
    /\ GetJSONType(p) = InvalidJSON => GetMapping(p) = GoInvalidMapping

\* a decode that stopped in the call of a nil factory: the tag was already
\* GoOther and the type Object
C35_Witness ==
    /\ last.op = "UnmarshalJSON"
    /\ last.panic = NilFuncPanic
    /\ GetMapping(p) = GoOther
    /\ GetJSONType(p) = Object

\* the JSON type whose acceptance a configuration call is about
ConfiguredType ==
    [c \in ConfigurationCalls |->
        IF c \in DOMAIN FlagCallType THEN FlagCallType[c]
        ELSE IF c \in DOMAIN OtherCallType THEN OtherCallType[c]
        ELSE Number]

\* C36: a configuration call leaves the acceptance flag of every JSON type
\* other than its own as it was; WithNull, WithBoolean and WithString write
\* nothing but their flag, the numeric calls nothing but the Number flag
\* and the numeric mapping, and WithObject and WithArray no flag but their
\* own (they store the factory they are given)
C36_OtherFlagsUntouched ==
    [][last'.op \in ConfigurationCalls =>
           LET t == ConfiguredType[last'.op]
           IN  /\ \A u \in JSONTypes \ {t} : p'.with[u] = p.with[u]
               /\ last'.op \in DOMAIN FlagCallType =>
                      p' = [p EXCEPT !.with[t] = p'.with[t]]
               /\ t = Number =>
                      p' = [p EXCEPT !.with[t] = p'.with[t], !.numType = p'.numType]
               /\ last'.op \in DOMAIN OtherCallType =>
                      p' = [p EXCEPT !.with[t] = p'.with[t],
                                     !.otherFactory = p'.otherFactory]]_vars

\* WithArray(nil) on a Payload accepting Object, Number and Null leaves the
\* three accepted
C36_Witness ==
    /\ last.op = "WithArray"
    /\ last.arg = <<NilFactory>>
    /\ ~p.with[Array]
    /\ p.with[Object]
    /\ p.with[Number]
    /\ p.with[Null]

\* the configuration of a Payload
Configuration(q) == <<q.with, q.numType, q.otherFactory>>

\* what a caller can see of a decode: the error or panic, and afterwards
\* the tag, the JSON type and the value Get returns
Observable(r) ==
    <<r.err, r.panic, GetMapping(r.p), GetJSONType(r.p), Get(r.p)>>

\* C37: the outcome of UnmarshalJSON (error, tag, JSON type, value read
\* through Get) is decided by the input and the configuration: two Payloads
\* with one configuration and different decode histories give the same
\* outcome on the same input, and are field by field the same afterwards
C37_OutcomeIgnoresHistory ==
    [][last'.op = "UnmarshalJSON" =>
           /\ Configuration(heap[1]) = Configuration(heap[2])
           /\ Observable(UnmarshalJSON(heap[1], last'.arg))
                 = Observable(UnmarshalJSON(heap[2], last'.arg))
           /\ last'.err = UnmarshalJSON(heap[2], last'.arg).err
           /\ heap'[1] = heap'[2]]_vars

\* both refuse `true`; the first had decoded a string before, the second
\* had decoded nothing
C37_Witness ==
    /\ last.op = "UnmarshalJSON"
    /\ last.arg = InTrue
    /\ last.err = ErrUnexpectedType
    /\ decoded = "ok"
    /\ heap[1].with[String]
    /\ heap[1] = heap[2]
    /\ Get(heap[1]) = [ret |-> NilIface, mapping |-> GoInvalidMapping]

\* the read operations
ReadCalls == {"Get", "GetMapping", "GetJSONType", "IsNil"} \cup Accessors

\* C38: Get, GetMapping, GetJSONType, IsNil and the typed accessors,
\* returning or panicking, leave every field of the Payload as it was, and
\* the same read made twice in a row gives the same result twice
C38_ReadsChangeNothing ==
    [][last'.op \in ReadCalls =>
           /\ p' = p
           /\ last.op = last'.op => last' = last]_vars

\* GetFloat returns the decoded 34.1 and the slot still holds it
C38_Witness ==
    /\ last.op = "GetFloat"
    /\ last.panic = nil
    /\ decoded = "ok"
    /\ GetMapping(p) = GoFloat
    /\ p.pFloat # FloatZero
    /\ last.ret = Iface("float64", p.pFloat)

====
